---- MODULE Spec2Model ----
(***************************************************************************)
(* Model of winshot: the clipboard image decoder (GetClipboardImage in     *)
(* internal/screenshot/clipboard.go), the overlay compositor               *)
(* (internal/overlay/draw.go), the window capture and, of the frontend,    *)
(* the region selector, the settings panel, the crop overlay and the       *)
(* settings dialog.  Each part has its own variables, its own next-state   *)
(* relation and its own specification: Spec (one decode), SpecConcurrent   *)
(* (two decodes at once), SpecOverlay (a context, one overlay frame and    *)
(* its Cleanup), SpecRedraw (several frames on one context), SpecFill,     *)
(* SpecPill and SpecText (fillOverlay, the size pill's placement and the   *)
(* text loop as functions of their arguments), SpecSelector, SpecPanel,    *)
(* SpecCrop, SpecCapture and SpecSettings.                                 *)
(*                                                                         *)
(* The decoder.                                                            *)
(* One call of GetClipboardImage is a process whose position is pc.  Each  *)
(* Win32 call and each validation step of the function is one action; the  *)
(* answers of the operating system (return values, the declared length of  *)
(* the global memory object, the bytes it holds) are drawn when the code   *)
(* asks for them.  Deferred calls are kept on a stack and run in LIFO      *)
(* order when the function returns.                                        *)
(*                                                                         *)
(* uintptr values are kept as their two's-complement signed                *)
(* representative: a negative number d stands for the unsigned word        *)
(* 2^64 + d.  Unsigned comparison is ULt.  This is exact as long as the    *)
(* magnitudes stay below 2^63, which the input sets below guarantee.       *)
(***************************************************************************)
EXTENDS Integers, Sequences, FiniteSets, TLC

VARIABLES
    pc,             \* position of the call
    osThreadLocked, \* runtime.LockOSThread is in effect
    clipOpen,       \* this call holds the clipboard (OpenClipboard succeeded)
    globalLocked,   \* the global memory object is locked by this call
    defers,         \* stack of deferred calls, head runs first
    calls,          \* history: every system call made, with its return value
    size,           \* declared length of the memory object (GlobalSize)
    header,         \* the BITMAPINFOHEADER fields as read
    pattern,        \* which bytes the memory object holds after the header
    garbage,        \* what a read outside the memory object yields
    reads,          \* history: every offset (relative to ptr) that was read
    width, height, bitCount, bottomUp, pixelOffset, rowSize,  \* locals
    img,            \* img.Pix as a sequence of <<r, g, b, a>>, row-major
    result,         \* what the call returned
    \* two concurrent calls (SpecConcurrent)
    cpc,            \* position of each caller
    copen,          \* which callers hold the clipboard
    cdefers,        \* each caller's stack of deferred calls
    cerr,           \* the error each caller returned
    crefused,       \* history: callers whose OpenClipboard was refused
                    \* while the other caller held the clipboard
    \* the overlay compositor (SpecOverlay)
    dpc,            \* "none", "failed", "ready", the primitive that runs
                    \* next, "shown", "cleaned"
    dc,             \* dc.width and dc.height
    pixels,         \* the pixel buffer, row-major
    before,         \* history: the buffer before the last primitive ran
    frame,          \* the arguments of the DrawOverlay call
    writes,         \* history: the cells each primitive wrote
    drawLog,        \* history: the primitives run for this frame, in order
    shotReads,      \* history: the indices of screenshot.Pix that were read
    gdi,            \* the GDI objects alive and, as history, the GDI calls
    frames,         \* history: each finished frame's inputs and buffer
    \* fillOverlay on its own (SpecFill)
    fill,           \* the buffer before, the alpha, and the buffer after
    \* drawSizeIndicator's placement on its own (SpecPill)
    placed,         \* the buffer size, the selection, the ratio and the pill
    \* drawText and drawInstructionText on their own (SpecText)
    typed,          \* the font, origin, string and what each character wrote
    \* the region selector of the frontend (SpecSelector)
    isOpen,         \* the isOpen prop, owned by the parent component
    isDrawing, startPos, currentPos,    \* the component's state
    selected,       \* history: the arguments of every onSelect call
    released,       \* history: the state the last button release found
    entered,        \* history: the button-down that entered the drag
    \* the settings panel of the frontend (SpecPanel)
    panel,          \* its state, the file reads in flight, the background
    \* constrainCrop of the crop overlay on its own (SpecCrop)
    crop,           \* the area, the aspect ratio, the image and the result
    \* one call of CaptureWindowByCoords (SpecCapture)
    capture,        \* its position, the window rectangle and what it returns
    \* the settings dialog of the frontend and the backend (SpecSettings)
    dialog          \* its state, the backend calls in flight, the stored
                    \* configuration and, as history, the last event

locals == <<width, height, bitCount, bottomUp, pixelOffset, rowSize>>
clipboard == <<size, header, pattern, garbage>>
callVars == <<pc, osThreadLocked, clipOpen, globalLocked, defers, calls,
              clipboard, reads, locals, img, result>>
concVars == <<cpc, copen, cdefers, cerr, crefused>>
\* everything that a single call of GetClipboardImage leaves alone
overlayVars == <<dpc, dc, pixels, before, frame, writes, drawLog, shotReads,
                 gdi, frames>>
pureVars == <<fill, placed, typed>>
selectorVars == <<isOpen, isDrawing, startPos, currentPos, selected, released,
                  entered>>
uiVars == <<panel, crop, capture, dialog>>
notCall == <<concVars, overlayVars, pureVars, selectorVars, uiVars>>
notConc == <<callVars, overlayVars, pureVars, selectorVars, uiVars>>
notOverlay == <<callVars, concVars, pureVars, selectorVars, uiVars>>
notPure == <<callVars, concVars, overlayVars, selectorVars, uiVars>>
notSelector == <<callVars, concVars, overlayVars, pureVars, uiVars>>
notUi == <<callVars, concVars, overlayVars, pureVars, selectorVars>>
notPanel == <<crop, capture, dialog, notUi>>
notCrop == <<panel, capture, dialog, notUi>>
notCapture == <<panel, crop, dialog, notUi>>
notDialog == <<panel, crop, capture, notUi>>
vars == <<callVars, concVars, overlayVars, pureVars, selectorVars, uiVars>>

-----------------------------------------------------------------------------
(* Bounds of the model *)

MaxW == 4
MaxH == 4
MaxDcW == 12
MaxDcH == 26
MaxReleases == 1
MaxCleanups == 2
MaxFrames == 3
MaxUploads == 2
MaxLoads == 1

(* Program constants *)

maxClipboardSize == 104857600

\* unsafe.Sizeof(BITMAPINFOHEADER) and the byte offsets of the fields read
HeaderSize == 40
OffBiSize == 0
OffBiWidth == 4
OffBiHeight == 8
OffBiBitCount == 14
OffBiClrUsed == 32

ErrNoImageInClipboard == "no image in clipboard"
ErrOpenClipboard == "failed to open clipboard"
ErrGlobalLock == "failed to lock clipboard data"
ErrGlobalSize == "failed to get clipboard data size"
ErrTooLarge == "clipboard image too large"
ErrDimensions == "invalid image dimensions in clipboard"
ErrLayout == "invalid clipboard data: pixel data smaller than expected"
ErrBitDepth == "unsupported bit depth: only 24-bit and 32-bit images are supported"
ErrNil == "nil"

-----------------------------------------------------------------------------
(* Input sets: the headers, declared lengths and contents a clipboard      *)
(* object is drawn from.                                                   *)

BiSizes == {12, HeaderSize, 108}
BiWidths == (-1)..MaxW
BiHeights == (-MaxH)..MaxH
BitCounts == {1, 4, 8, 16, 24, 32}

Headers ==
    { [BiSize |-> s, BiWidth |-> w, BiHeight |-> h, BiBitCount |-> b,
       BiClrUsed |-> c] :
        s \in BiSizes, w \in BiWidths, h \in BiHeights, b \in BitCounts,
        c \in {0, 3} } \
    { hd \in [BiSize : BiSizes, BiWidth : BiWidths, BiHeight : BiHeights,
              BiBitCount : BitCounts, BiClrUsed : {3}] : hd.BiBitCount > 8 }

Patterns == {"ramp", "zero", "fill", "half"}
GarbageBytes == {0, 255}

-----------------------------------------------------------------------------
(* Arithmetic of the decoder *)

\* mutant: the sign of a top-down height is kept
AbsHeight_KeepsSign(h) == h

\* height = -height when negative (clipboard.go 107-109)
AbsHeight(h) == IF h < 0 THEN -h ELSE h

\* mutant: the limit itself is refused
ExceedsLimit_Inclusive(sz) == sz >= maxClipboardSize

\* size > maxClipboardSize (clipboard.go 94)
ExceedsLimit(sz) == sz > maxClipboardSize

\* width <= 0 || height <= 0 (clipboard.go 111)
BadDimensions(w, h) == w <= 0 \/ h <= 0

\* uintptr(1 << bitCount * 4), or uintptr(header.BiClrUsed * 4) computed in
\* uint32: (c * 4) mod 2^32 = (c mod 2^30) * 4
ColorTableSize(bits, clrUsed) ==
    IF clrUsed > 0 THEN (clrUsed % 1073741824) * 4 ELSE (2 ^ bits) * 4

\* pixelOffset := uintptr(header.BiSize), plus the colour table for <= 8 bits
PixelOffsetOf(hd) ==
    hd.BiSize + (IF hd.BiBitCount <= 8
                 THEN ColorTableSize(hd.BiBitCount, hd.BiClrUsed) ELSE 0)

\* mutant: rows are taken to be unpadded
RowSize_Unpadded(w, bits) == (w * bits) \div 8

\* rowSize := ((width*bitCount + 31) / 32) * 4
RowSize(w, bits) == ((w * bits + 31) \div 32) * 4

\* a - b in uintptr, as the signed representative of the wrapped word
SubUintptr(a, b) == a - b

\* a < b on unsigned words given by their signed representatives
ULt(a, b) == IF (a < 0) = (b < 0) THEN a < b ELSE b < 0

\* mutant: a buffer that holds exactly the pixel rows is refused
LayoutTooSmall_Inclusive(dataSize, expectedSize) == ~ULt(expectedSize, dataSize)

\* dataSize < expectedSize (clipboard.go 138)
LayoutTooSmall(dataSize, expectedSize) == ULt(dataSize, expectedSize)

\* mutant: the row order is ignored
SrcRow_TopDownOnly(y, h, bu) == y

\* srcY := y, or height - 1 - y for a bottom-up DIB
SrcRow(y, h, bu) == IF bu THEN h - 1 - y ELSE y

\* x*3 for 24-bit, x*4 for 32-bit
BytesPerPixel(bits) == IF bits = 24 THEN 3 ELSE 4

\* mutant: a zero alpha is kept
ResolveAlpha_Keeps(a) == a

\* if a == 0 { a = 255 }
ResolveAlpha(a) == IF a = 0 THEN 255 ELSE a

\* png.Encode into a bytes.Buffer fails only for an image without pixels
PngEncodeFails(w, h) == w <= 0 \/ h <= 0

-----------------------------------------------------------------------------
(* The bytes of the global memory object *)

FieldBytes(off, n) == off..(off + n - 1)

\* byte k of the little-endian two's-complement encoding of v
LEByte(v, k) ==
    IF v >= 0 THEN (v \div (256 ^ k)) % 256
    ELSE 255 - ((((-v) - 1) \div (256 ^ k)) % 256)

\* byte i of the BITMAPINFOHEADER hd; fields the decoder never reads are
\* biPlanes = 1 and zero elsewhere
HeaderByte(hd, i) ==
    CASE i \in FieldBytes(OffBiSize, 4) -> LEByte(hd.BiSize, i - OffBiSize)
      [] i \in FieldBytes(OffBiWidth, 4) -> LEByte(hd.BiWidth, i - OffBiWidth)
      [] i \in FieldBytes(OffBiHeight, 4) -> LEByte(hd.BiHeight, i - OffBiHeight)
      [] i = 12 -> 1
      [] i \in FieldBytes(OffBiBitCount, 2) ->
            LEByte(hd.BiBitCount, i - OffBiBitCount)
      [] i \in FieldBytes(OffBiClrUsed, 4) ->
            LEByte(hd.BiClrUsed, i - OffBiClrUsed)
      [] OTHER -> 0

\* byte i of the data that follows the header, for each content pattern:
\* "ramp" gives neighbouring offsets different values, "fill" is the BGRA
\* quadruple (255, 0, 0, 255) repeated, "half" is 128 and "zero" is 0
PatByte(pat, i) ==
    CASE pat = "ramp" -> (i * 37 + 53) % 256
      [] pat = "fill" -> IF i % 4 \in {0, 3} THEN 255 ELSE 0
      [] pat = "half" -> 128
      [] OTHER -> 0

\* *(*byte)(unsafe.Pointer(ptr + i)): inside the object the byte stored
\* there, outside it whatever the process happens to find
ByteAt(sz, hd, pat, g, i) ==
    IF i >= 0 /\ i < sz
    THEN (IF i < HeaderSize THEN HeaderByte(hd, i) ELSE PatByte(pat, i))
    ELSE g

-----------------------------------------------------------------------------
(* The conversion loops (clipboard.go 143-186) *)

\* offsets read by the loops, relative to ptr
PixelReads(w, h, bits, bu, po, rs) ==
    { po + SrcRow(y, h, bu) * rs + x * BytesPerPixel(bits) + j :
        y \in 0..(h - 1), x \in 0..(w - 1), j \in 0..(BytesPerPixel(bits) - 1) }

\* one pixel: b, g, r[, a] at addr become r, g, b, a; bytes[i] is the byte
\* the process reads at ptr + i
ConvertPixel(bytes, addr, bits) ==
    << bytes[addr + 2], bytes[addr + 1], bytes[addr],
       IF bits = 24 THEN 255 ELSE ResolveAlpha(bytes[addr + 3]) >>

\* mutant: the conversion stops before the last row, which stays as allocated
ConvertDIB_SkipsLastRow(bytes, w, h, bits, bu, po, rs) ==
    [ k \in 1..(w * h) |->
        LET y == (k - 1) \div w
            x == (k - 1) % w
            rowPtr == po + SrcRow(y, h, bu) * rs
        IN  IF y = h - 1 THEN <<0, 0, 0, 0>>
            ELSE ConvertPixel(bytes, rowPtr + x * BytesPerPixel(bits), bits) ]

\* img.Pix after the loops; pixel (x, y) is element y*width + x + 1
ConvertDIB(bytes, w, h, bits, bu, po, rs) ==
    [ k \in 1..(w * h) |->
        LET y == (k - 1) \div w
            x == (k - 1) % w
            rowPtr == po + SrcRow(y, h, bu) * rs
        IN  ConvertPixel(bytes, rowPtr + x * BytesPerPixel(bits), bits) ]

\* image.NewRGBA(image.Rect(0, 0, width, height)): all bytes zero
NewRGBA(w, h) == [ k \in 1..(w * h) |-> <<0, 0, 0, 0>> ]

\* base64 of the PNG encoding of img (lossless, so it is kept as the pixels
\* under a tag)
PngBase64(pix) == <<"png/base64", pix>>

-----------------------------------------------------------------------------
(* Declared lengths.  For each header the lengths around the smallest      *)
(* length that holds its pixel rows, a length too short for the header,    *)
(* the header alone and the size limit; and, whatever the header, a        *)
(* failed GlobalSize (0) and a length above the limit.                     *)

SizesFor(hd) ==
    {1, HeaderSize, maxClipboardSize} \cup
    (IF hd.BiWidth > 0 /\ hd.BiHeight # 0
     THEN LET t == PixelOffsetOf(hd)
                   + (((hd.BiWidth * hd.BiBitCount + 31) \div 32) * 4)
                     * (IF hd.BiHeight < 0 THEN -hd.BiHeight ELSE hd.BiHeight)
          IN  {t - 1, t, t + 1}
     ELSE {})

Sizes == {0, maxClipboardSize + 1} \cup UNION { SizesFor(hd) : hd \in Headers }

-----------------------------------------------------------------------------
(* Calls, deferred calls and returns *)

Call(fn, ret) == [fn |-> fn, ret |-> ret]

\* mutant: the deferred call is never registered
PushDefer_Dropped(stack, f) == stack

\* mutant: deferred calls run in the order they were registered
PushDefer_Fifo(stack, f) == Append(stack, f)

\* defer f(): the call registered last runs first
PushDefer(stack, f) == <<f>> \o stack

\* return nil, err / return &CaptureResult{...}, nil: the deferred calls
\* run before the caller sees the result
Return(res, err) ==
    /\ result' = [res |-> res, err |-> err]
    /\ pc' = "return"

NilResult == <<>>

NoHeader ==
    [BiSize |-> 0, BiWidth |-> 0, BiHeight |-> 0, BiBitCount |-> 0, BiClrUsed |-> 0]

CallInit ==
    /\ pc = "start"
    /\ osThreadLocked = FALSE
    /\ clipOpen = FALSE
    /\ globalLocked = FALSE
    /\ defers = <<>>
    /\ calls = <<>>
    /\ size = 0
    /\ header = NoHeader
    /\ pattern = "zero"
    /\ garbage = 0
    /\ reads = {}
    /\ width = 0 /\ height = 0 /\ bitCount = 0 /\ bottomUp = FALSE
    /\ pixelOffset = 0 /\ rowSize = 0
    /\ img = <<>>
    /\ result = [res |-> NilResult, err |-> ErrNil]

\* runtime.LockOSThread(); defer runtime.UnlockOSThread()
LockOSThread ==
    /\ pc = "start"
    /\ osThreadLocked' = TRUE
    /\ calls' = Append(calls, Call("LockOSThread", 1))
    /\ defers' = PushDefer(defers, "UnlockOSThread")
    /\ pc' = "available"
    /\ UNCHANGED <<clipOpen, globalLocked, clipboard, reads, locals, img, result>>
    /\ UNCHANGED notCall

\* procIsClipboardFormatAvailable.Call(CF_DIB)
IsClipboardFormatAvailable ==
    /\ pc = "available"
    /\ \E available \in {0, 1} :
        /\ calls' = Append(calls, Call("IsClipboardFormatAvailable", available))
        /\ IF available = 0
           THEN Return(NilResult, ErrNoImageInClipboard)
           ELSE pc' = "open" /\ UNCHANGED result
    /\ UNCHANGED <<osThreadLocked, clipOpen, globalLocked, defers, clipboard,
                   reads, locals, img>>
    /\ UNCHANGED notCall

\* procOpenClipboard.Call(0); defer procCloseClipboard.Call()
OpenClipboard ==
    /\ pc = "open"
    /\ \E ret \in {0, 1} :
        /\ calls' = Append(calls, Call("OpenClipboard", ret))
        /\ IF ret = 0
           THEN /\ Return(NilResult, ErrOpenClipboard)
                /\ UNCHANGED <<clipOpen, defers>>
           ELSE /\ clipOpen' = TRUE
                /\ defers' = PushDefer(defers, "CloseClipboard")
                /\ pc' = "getdata"
                /\ UNCHANGED result
    /\ UNCHANGED <<osThreadLocked, globalLocked, clipboard, reads, locals, img>>
    /\ UNCHANGED notCall

\* procGetClipboardData.Call(CF_DIB)
GetClipboardData ==
    /\ pc = "getdata"
    /\ \E hData \in {0, 1} :
        /\ calls' = Append(calls, Call("GetClipboardData", hData))
        /\ IF hData = 0
           THEN Return(NilResult, ErrNoImageInClipboard)
           ELSE pc' = "globallock" /\ UNCHANGED result
    /\ UNCHANGED <<osThreadLocked, clipOpen, globalLocked, defers, clipboard,
                   reads, locals, img>>
    /\ UNCHANGED notCall

\* procGlobalLock.Call(hData); defer procGlobalUnlock.Call(hData)
GlobalLock ==
    /\ pc = "globallock"
    /\ \E ptr \in {0, 1} :
        /\ calls' = Append(calls, Call("GlobalLock", ptr))
        /\ IF ptr = 0
           THEN /\ Return(NilResult, ErrGlobalLock)
                /\ UNCHANGED <<globalLocked, defers>>
           ELSE /\ globalLocked' = TRUE
                /\ defers' = PushDefer(defers, "GlobalUnlock")
                /\ pc' = "globalsize"
                /\ UNCHANGED result
    /\ UNCHANGED <<osThreadLocked, clipOpen, clipboard, reads, locals, img>>
    /\ UNCHANGED notCall

\* procGlobalSize.Call(hData); if size == 0
GlobalSize ==
    /\ pc = "globalsize"
    /\ \E sz \in Sizes :
        /\ size' = sz
        /\ calls' = Append(calls, Call("GlobalSize", sz))
        /\ IF sz = 0
           THEN Return(NilResult, ErrGlobalSize)
           ELSE pc' = "limit" /\ UNCHANGED result
    /\ UNCHANGED <<osThreadLocked, clipOpen, globalLocked, defers, header,
                   pattern, garbage, reads, locals, img>>
    /\ UNCHANGED notCall

\* if size > maxClipboardSize
CheckLimit ==
    /\ pc = "limit"
    /\ IF ExceedsLimit(size)
       THEN Return(NilResult, ErrTooLarge)
       ELSE pc' = "header" /\ UNCHANGED result
    /\ UNCHANGED <<osThreadLocked, clipOpen, globalLocked, defers, calls,
                   clipboard, reads, locals, img>>
    /\ UNCHANGED notCall

\* the offsets the step at pc is about to read: BiWidth, BiHeight and
\* BiBitCount (101-103); BiSize and, for <= 8 bits, BiClrUsed (116-121);
\* the pixel bytes (146-186)
PendingReads ==
    CASE pc = "header" ->
            FieldBytes(OffBiWidth, 4) \cup FieldBytes(OffBiHeight, 4)
                \cup FieldBytes(OffBiBitCount, 2)
      [] pc = "layout" ->
            FieldBytes(OffBiSize, 4)
                \cup (IF bitCount <= 8 THEN FieldBytes(OffBiClrUsed, 4) ELSE {})
      [] pc = "convert" ->
            IF bitCount \in {24, 32}
            THEN PixelReads(width, height, bitCount, bottomUp, pixelOffset, rowSize)
            ELSE {}
      [] OTHER -> {}

OutOfBounds(offsets) == \E r \in offsets : r < 0 \/ r >= size

\* header := (*BITMAPINFOHEADER)(unsafe.Pointer(ptr)); width, height,
\* bitCount, bottomUp; if width <= 0 || height <= 0
ParseHeader ==
    /\ pc = "header"
    /\ \E hd \in Headers :
        /\ size \in SizesFor(hd)
        /\ header' = hd
        /\ width' = hd.BiWidth
        /\ height' = AbsHeight(hd.BiHeight)
        /\ bottomUp' = (hd.BiHeight > 0)
        /\ bitCount' = hd.BiBitCount
        /\ IF BadDimensions(hd.BiWidth, AbsHeight(hd.BiHeight))
           THEN Return(NilResult, ErrDimensions)
           ELSE pc' = "layout" /\ UNCHANGED result
    /\ reads' = reads \cup PendingReads
    /\ UNCHANGED <<osThreadLocked, clipOpen, globalLocked, defers, calls, size,
                   pattern, garbage, pixelOffset, rowSize, img>>
    /\ UNCHANGED notCall

\* pixelOffset, image.NewRGBA, rowSize, and the bounds validation
\* if dataSize < expectedSize
ValidateLayout ==
    /\ pc = "layout"
    /\ LET po == PixelOffsetOf(header)
           rs == RowSize(width, bitCount)
           expectedSize == rs * height
           dataSize == SubUintptr(size, po)
       IN  /\ pixelOffset' = po
           /\ rowSize' = rs
           /\ img' = NewRGBA(width, height)
           /\ IF LayoutTooSmall(dataSize, expectedSize)
              THEN Return(NilResult, ErrLayout)
              ELSE pc' = "convert" /\ UNCHANGED result
    /\ reads' = reads \cup PendingReads
    /\ UNCHANGED <<osThreadLocked, clipOpen, globalLocked, defers, calls,
                   clipboard, width, height, bitCount, bottomUp>>
    /\ UNCHANGED notCall

\* switch bitCount { case 24: ... case 32: ... default: return error }
ConvertToRGBA ==
    /\ pc = "convert"
    /\ IF bitCount \in {24, 32}
       THEN \E pat \in Patterns :
            \E g \in (IF OutOfBounds(PendingReads) THEN GarbageBytes ELSE {0}) :
                LET bytes == [ i \in PendingReads |->
                                    ByteAt(size, header, pat, g, i) ]
                IN  /\ pattern' = pat
                    /\ garbage' = g
                    /\ img' = ConvertDIB(bytes, width, height, bitCount, bottomUp,
                                         pixelOffset, rowSize)
                    /\ pc' = "encode"
                    /\ UNCHANGED result
       ELSE /\ Return(NilResult, ErrBitDepth)
            /\ UNCHANGED <<pattern, garbage, img>>
    /\ reads' = reads \cup PendingReads
    /\ UNCHANGED <<osThreadLocked, clipOpen, globalLocked, defers, calls, size,
                   header, locals>>
    /\ UNCHANGED notCall

\* png.Encode(&buf, img) and the CaptureResult
EncodePNG ==
    /\ pc = "encode"
    /\ IF PngEncodeFails(width, height)
       THEN Return(NilResult, "png: invalid format")
       ELSE Return(<< [Width |-> width, Height |-> height,
                       Data |-> PngBase64(img)] >>, ErrNil)
    /\ UNCHANGED <<osThreadLocked, clipOpen, globalLocked, defers, calls,
                   clipboard, reads, locals, img>>
    /\ UNCHANGED notCall

\* a read outside the memory object may also hit an unmapped page: the
\* process dies with an access violation and no deferred call runs
Fault ==
    /\ pc \in {"header", "layout", "convert"}
    /\ OutOfBounds(PendingReads)
    /\ reads' = reads \cup PendingReads
    /\ pc' = "crashed"
    /\ UNCHANGED <<osThreadLocked, clipOpen, globalLocked, defers, calls,
                   clipboard, locals, img, result>>
    /\ UNCHANGED notCall

\* on return the deferred calls run, last registered first
RunDeferred ==
    /\ pc = "return"
    /\ defers # <<>>
    /\ LET f == Head(defers)
       IN  /\ calls' = Append(calls, Call(f, 1))
           /\ defers' = Tail(defers)
           /\ osThreadLocked' = IF f = "UnlockOSThread" THEN FALSE ELSE osThreadLocked
           /\ clipOpen' = IF f = "CloseClipboard" THEN FALSE ELSE clipOpen
           /\ globalLocked' = IF f = "GlobalUnlock" THEN FALSE ELSE globalLocked
    /\ UNCHANGED <<pc, clipboard, reads, locals, img, result>>
    /\ UNCHANGED notCall

\* the caller receives the result
Returned ==
    /\ pc = "return"
    /\ defers = <<>>
    /\ pc' = "done"
    /\ UNCHANGED <<osThreadLocked, clipOpen, globalLocked, defers, calls,
                   clipboard, reads, locals, img, result>>
    /\ UNCHANGED notCall

Next ==
    \/ LockOSThread
    \/ IsClipboardFormatAvailable
    \/ OpenClipboard
    \/ GetClipboardData
    \/ GlobalLock
    \/ GlobalSize
    \/ CheckLimit
    \/ ParseHeader
    \/ ValidateLayout
    \/ ConvertToRGBA
    \/ EncodePNG
    \/ Fault
    \/ RunDeferred
    \/ Returned

-----------------------------------------------------------------------------
(* Two concurrent calls of GetClipboardImage.  Each caller runs on its own *)
(* goroutine, pinned to its own OS thread by LockOSThread.  Only the steps *)
(* that touch what the callers share, the system clipboard, are kept       *)
(* apart; the rest of the function (lines 73-201) works on the caller's    *)
(* own locals and is one step, Decode, with any of its outcomes.           *)
(* OpenClipboard is refused by the system while another thread has the     *)
(* clipboard open; the function makes one attempt and returns on failure.  *)

Callers == {1, 2}

DecodeOutcomes ==
    {ErrNil, ErrNoImageInClipboard, ErrGlobalLock, ErrGlobalSize, ErrTooLarge,
     ErrDimensions, ErrLayout, ErrBitDepth}

ConcInit ==
    /\ cpc = [c \in Callers |-> "start"]
    /\ copen = {}
    /\ cdefers = [c \in Callers |-> <<>>]
    /\ cerr = [c \in Callers |-> ErrNil]
    /\ crefused = {}

\* return nil, err by caller c
ReturnBy(c, err) ==
    /\ cerr' = [cerr EXCEPT ![c] = err]
    /\ cpc' = [cpc EXCEPT ![c] = "return"]

\* runtime.LockOSThread(); defer runtime.UnlockOSThread()
LockOSThreadBy(c) ==
    /\ cpc[c] = "start"
    /\ cdefers' = [cdefers EXCEPT ![c] = PushDefer(@, "UnlockOSThread")]
    /\ cpc' = [cpc EXCEPT ![c] = "available"]
    /\ UNCHANGED <<copen, cerr, crefused, notConc>>

\* procIsClipboardFormatAvailable.Call(CF_DIB)
IsClipboardFormatAvailableBy(c) ==
    /\ cpc[c] = "available"
    /\ \E available \in {0, 1} :
        IF available = 0
        THEN ReturnBy(c, ErrNoImageInClipboard)
        ELSE cpc' = [cpc EXCEPT ![c] = "open"] /\ UNCHANGED cerr
    /\ UNCHANGED <<copen, cdefers, crefused, notConc>>

\* what OpenClipboard may answer to a caller: 0 while another thread has
\* the clipboard open
OpenClipboardAnswers(c) == IF copen \ {c} # {} THEN {0} ELSE {0, 1}

\* procOpenClipboard.Call(0); if ret == 0 { return nil, error };
\* defer procCloseClipboard.Call()
OpenClipboardBy(c) ==
    /\ cpc[c] = "open"
    /\ \E ret \in OpenClipboardAnswers(c) :
        IF ret = 0
        THEN /\ ReturnBy(c, ErrOpenClipboard)
             /\ crefused' = IF copen \ {c} # {} THEN crefused \cup {c} ELSE crefused
             /\ UNCHANGED <<copen, cdefers>>
        ELSE /\ copen' = copen \cup {c}
             /\ cdefers' = [cdefers EXCEPT ![c] = PushDefer(@, "CloseClipboard")]
             /\ cpc' = [cpc EXCEPT ![c] = "decode"]
             /\ UNCHANGED <<cerr, crefused>>
    /\ UNCHANGED notConc

\* GetClipboardData ... return &CaptureResult{...}, nil
DecodeBy(c) ==
    /\ cpc[c] = "decode"
    /\ \E err \in DecodeOutcomes : ReturnBy(c, err)
    /\ UNCHANGED <<copen, cdefers, crefused, notConc>>

\* on return the caller's deferred calls run, last registered first
RunDeferredBy(c) ==
    /\ cpc[c] = "return"
    /\ cdefers[c] # <<>>
    /\ copen' = IF Head(cdefers[c]) = "CloseClipboard" THEN copen \ {c} ELSE copen
    /\ cdefers' = [cdefers EXCEPT ![c] = Tail(@)]
    /\ UNCHANGED <<cpc, cerr, crefused, notConc>>

ReturnedBy(c) ==
    /\ cpc[c] = "return"
    /\ cdefers[c] = <<>>
    /\ cpc' = [cpc EXCEPT ![c] = "done"]
    /\ UNCHANGED <<copen, cdefers, cerr, crefused, notConc>>

NextConcurrent ==
    \E c \in Callers :
        \/ LockOSThreadBy(c)
        \/ IsClipboardFormatAvailableBy(c)
        \/ OpenClipboardBy(c)
        \/ DecodeBy(c)
        \/ RunDeferredBy(c)
        \/ ReturnedBy(c)

-----------------------------------------------------------------------------
(* The overlay compositor, internal/overlay/draw.go.                       *)
(*                                                                         *)
(* A DrawContext owns a pixel buffer of dc.width * dc.height packed 32-bit *)
(* pixels.  A pixel is kept as its four bytes <<a, r, g, b>>, the value    *)
(* (a<<24)|(r<<16)|(g<<8)|b of the code.  DrawOverlay composes one frame   *)
(* by calling its primitives in turn; dpc names the primitive that runs    *)
(* next.  A primitive loops over the cells <<px, py>> of a shape and       *)
(* writes those that pass its bounds test.                                 *)

\* the four channels packed into one uint32
Pack(a, r, g, b) == <<a, r, g, b>>

blue == Pack(255, 0, 120, 215)
white == Pack(255, 255, 255, 255)
bgColor == Pack(220, 0, 0, 0)

minInt(a, b) == IF a < b THEN a ELSE b
maxInt(a, b) == IF a > b THEN a ELSE b

\* Go's integer division truncates toward zero
GoDiv(a, b) == IF a >= 0 THEN a \div b ELSE 0 - ((0 - a) \div b)

\* mutant: the bounds test forgets the left and top edges
InBuffer_NoLowerBound(px, py, w, h) == px < w /\ py < h

\* if px >= 0 && px < dc.width && py >= 0 && py < dc.height
InBuffer(px, py, w, h) == px >= 0 /\ px < w /\ py >= 0 /\ py < h

\* the cells of a buffer of w x h pixels
Cells(w, h) == (0..(w - 1)) \X (0..(h - 1))

\* for dy := 0; dy < h; dy++ { for dx := 0; dx < w; dx++ { x+dx, y+dy } }
RectCells(x, y, w, h) == (x..(x + w - 1)) \X (y..(y + h - 1))

\* pixels[py*dc.width+px] = colour for every cell of the set
Store(buf, w, cells, colour) ==
    LET idx == { c[2] * w + c[1] : c \in cells }
    IN  [ i \in DOMAIN buf |-> IF (i - 1) \in idx THEN colour ELSE buf[i] ]

(* The screenshot, an *image.RGBA with Rect (0,0)-(w,h), Stride 4*w and    *)
(* Pix of Stride*h bytes R,G,B,A; nil is a screenshot that is absent.      *)

NilShot == [isNil |-> TRUE, w |-> 0, h |-> 0, pat |-> "none"]
Stride(shot) == 4 * shot.w
PixLen(shot) == Stride(shot) * shot.h

\* screenshot.Pix[i]
PixByte(shot, i) ==
    IF shot.pat = "white" THEN 255 ELSE (i * 7 + 3) % 256

\* srcIdx := y*screenshot.Stride + x*4
SrcIdx(shot, x, y) == y * Stride(shot) + x * 4

\* (255 << 24) | (r << 16) | (g << 8) | b of the screenshot pixel (x, y)
ShotPixel(shot, x, y) ==
    Pack(255, PixByte(shot, SrcIdx(shot, x, y)),
              PixByte(shot, SrcIdx(shot, x, y) + 1),
              PixByte(shot, SrcIdx(shot, x, y) + 2))

\* drawScreenshot: the cells copied, x < min(srcWidth, dc.width) and
\* y < min(srcHeight, dc.height)
ScreenshotCells(shot, w, h) ==
    IF shot.isNil THEN {}
    ELSE Cells(minInt(shot.w, w), minInt(shot.h, h))

\* mutant: the overlay alpha is used as the scale itself
DarkenChannel_ByAlpha(c, alpha) == (c * alpha) \div 255

\* the pairs <<alpha, c>> for which the double product c * ((255-alpha)/255.0)
\* falls just short of the integer c*(255-alpha)/255
RoundsDown ==
    { <<60, 153>>, <<68, 75>>, <<68, 150>>, <<68, 165>>, <<84, 85>>, <<84, 170>>,
      <<100, 51>>, <<100, 102>>, <<100, 153>>, <<100, 204>>, <<108, 85>>,
      <<108, 170>> }

\* fillOverlay: factor := float64(255-alpha) / 255.0;
\* r = uint32(float64(r) * factor), for c and alpha in 0..255
DarkenChannel(c, alpha) ==
    ((c * (255 - alpha)) \div 255) - (IF <<alpha, c>> \in RoundsDown THEN 1 ELSE 0)

\* mutant: the restore runs one column and one row too far
ClearCells_Wider(shot, x, y, w, h, bw, bh) ==
    IF shot.isNil THEN {}
    ELSE { c \in RectCells(x, y, w + 1, h + 1) :
            /\ ~(c[2] < 0 \/ c[2] >= bh \/ c[2] >= shot.h)
            /\ ~(c[1] < 0 \/ c[1] >= bw \/ c[1] >= shot.w) }

\* clearRegion: the cells of the rectangle that lie in the buffer and in
\* the screenshot
ClearCells(shot, x, y, w, h, bw, bh) ==
    IF shot.isNil THEN {}
    ELSE { c \in RectCells(x, y, w, h) :
            /\ ~(c[2] < 0 \/ c[2] >= bh \/ c[2] >= shot.h)
            /\ ~(c[1] < 0 \/ c[1] >= bw \/ c[1] >= shot.w) }

\* fillOverlay(alpha) over a whole buffer: the old alpha is dropped
FillOverlay(buf, alpha) ==
    [ i \in DOMAIN buf |->
        Pack(255, DarkenChannel(buf[i][2], alpha),
                  DarkenChannel(buf[i][3], alpha),
                  DarkenChannel(buf[i][4], alpha)) ]

\* drawSelectionBorder: for t := 0; t < thickness; t++ { top, bottom, left,
\* right edge }, before the bounds test
BorderCells(x, y, w, h) ==
    UNION { { <<x + dx, y + t>> : dx \in 0..(w - 1) } \cup
            { <<x + dx, y + h - 1 - t>> : dx \in 0..(w - 1) } \cup
            { <<x + t, y + dy>> : dy \in 0..(h - 1) } \cup
            { <<x + w - 1 - t, y + dy>> : dy \in 0..(h - 1) } : t \in 0..1 }

\* drawCornerHandles: four squares of handleSize 6 centred on the corners,
\* before the bounds test
HandleCells(x, y, w, h) ==
    UNION { RectCells(c[1], c[2], 6, 6) :
            c \in { <<x - 3, y - 3>>, <<x + w - 3, y - 3>>,
                    <<x - 3, y + h - 3>>, <<x + w - 3, y + h - 3>> } }

\* drawText: the 5x7 font for digits and 'x'; five column bytes per glyph,
\* bit 6 is the top row
font ==
    "0" :> <<62, 69, 73, 81, 62>> @@
    "1" :> <<0, 33, 127, 1, 0>> @@
    "2" :> <<39, 73, 73, 73, 49>> @@
    "3" :> <<34, 73, 73, 73, 54>> @@
    "4" :> <<12, 20, 36, 127, 4>> @@
    "5" :> <<114, 81, 81, 81, 78>> @@
    "6" :> <<62, 73, 73, 73, 38>> @@
    "7" :> <<64, 64, 71, 72, 112>> @@
    "8" :> <<54, 73, 73, 73, 54>> @@
    "9" :> <<50, 73, 73, 73, 62>> @@
    "x" :> <<0, 20, 8, 20, 0>> @@
    " " :> <<0, 0, 0, 0, 0>>

\* drawInstructionText: the extended 5x7 font
instructionFont ==
    "0" :> <<62, 69, 73, 81, 62>> @@
    "1" :> <<0, 33, 127, 1, 0>> @@
    "2" :> <<39, 73, 73, 73, 49>> @@
    "3" :> <<34, 73, 73, 73, 54>> @@
    "4" :> <<12, 20, 36, 127, 4>> @@
    "5" :> <<114, 81, 81, 81, 78>> @@
    "6" :> <<62, 73, 73, 73, 38>> @@
    "7" :> <<64, 64, 71, 72, 112>> @@
    "8" :> <<54, 73, 73, 73, 54>> @@
    "9" :> <<50, 73, 73, 73, 62>> @@
    "A" :> <<63, 72, 72, 72, 63>> @@
    "B" :> <<127, 73, 73, 73, 54>> @@
    "C" :> <<62, 65, 65, 65, 34>> @@
    "D" :> <<127, 65, 65, 65, 62>> @@
    "E" :> <<127, 73, 73, 73, 65>> @@
    "S" :> <<50, 73, 73, 73, 38>> @@
    "a" :> <<2, 21, 21, 21, 15>> @@
    "c" :> <<14, 17, 17, 17, 10>> @@
    "d" :> <<14, 17, 17, 17, 127>> @@
    "e" :> <<14, 21, 21, 21, 12>> @@
    "g" :> <<8, 21, 21, 21, 30>> @@
    "h" :> <<127, 8, 8, 8, 7>> @@
    "i" :> <<0, 0, 47, 0, 0>> @@
    "l" :> <<0, 0, 127, 0, 0>> @@
    "m" :> <<31, 16, 14, 16, 15>> @@
    "n" :> <<31, 8, 16, 16, 15>> @@
    "o" :> <<14, 17, 17, 17, 14>> @@
    "p" :> <<31, 20, 20, 20, 8>> @@
    "r" :> <<31, 8, 16, 16, 8>> @@
    "s" :> <<9, 21, 21, 21, 18>> @@
    "t" :> <<16, 126, 17, 1, 2>> @@
    "u" :> <<30, 1, 1, 1, 30>> @@
    "v" :> <<24, 6, 1, 6, 24>> @@
    "x" :> <<17, 10, 4, 10, 17>> @@
    " " :> <<0, 0, 0, 0, 0>> @@
    "." :> <<0, 1, 0, 0, 0>> @@
    "+" :> <<4, 4, 31, 4, 4>> @@
    "H" :> <<127, 8, 8, 8, 127>> @@
    "P" :> <<127, 72, 72, 72, 48>>

\* "Drag to select. Space to move. ESC cancel"
TextSelect ==
    <<"D", "r", "a", "g", " ", "t", "o", " ", "s", "e", "l", "e", "c",
    "t", ".", " ", "S", "p", "a", "c", "e", " ", "t", "o", " ", "m", "o",
    "v", "e", ".", " ", "E", "S", "C", " ", "c", "a", "n", "c", "e", "l">>

\* "Hold Space + Drag to reposition"
TextReposition ==
    <<"H", "o", "l", "d", " ", "S", "p", "a", "c", "e", " ", "+", " ",
    "D", "r", "a", "g", " ", "t", "o", " ", "r", "e", "p", "o", "s", "i",
    "t", "i", "o", "n">>

\* bits&(1<<(6-row)) != 0
GlyphBit(bits, row) == (bits \div (2 ^ (6 - row))) % 2 = 1

\* drawText / drawInstructionText: the cells of the glyph pixels of text
\* drawn from (x, y) in font f, before the bounds test; every character,
\* mapped or not, advances curX by 6
TextCells(f, x, y, text) ==
    { <<x + 6 * (t[1] - 1) + (t[2] - 1), y + t[3]>> :
        t \in { u \in (1..Len(text)) \X (1..5) \X (0..6) :
                    /\ text[u[1]] \in DOMAIN f
                    /\ GlyphBit(f[text[u[1]]][u[2]], u[3]) } }

\* the decimal digits of n >= 0, as fmt's %d prints them
RECURSIVE Digits(_)
Digits(n) ==
    LET d == <<"0", "1", "2", "3", "4", "5", "6", "7", "8", "9">>
    IN  IF n < 10 THEN <<d[n + 1]>> ELSE Digits(n \div 10) \o <<d[(n % 10) + 1]>>

\* fmt.Sprintf("%d x %d", w, h)
SizeText(w, h) == Digits(w) \o <<" ", "x", " ">> \o Digits(h)

\* int(float64(w) * scaleRatio) for w >= 0 and a ratio num/den > 0 that a
\* double holds exactly
Scaled(w, ratio) == (w * ratio[1]) \div ratio[2]

\* drawSizeIndicator(x, y, w, h): the pill rectangle after the two
\* repositioning tests, and its text
SizePill(x, y, w, h, bw, bh) ==
    LET text == SizeText(w, h)
        pillWidth == Len(text) * 7 + 16
        pillHeight == 20
        pillY == IF y + pillHeight >= bh THEN y - pillHeight - 8 ELSE y
        pillX0 == IF x + pillWidth >= bw THEN bw - pillWidth - 4 ELSE x
        pillX == IF pillX0 < 0 THEN 4 ELSE pillX0
    IN  [x |-> pillX, y |-> pillY, w |-> pillWidth, h |-> pillHeight,
         text |-> text]

\* drawInstructions: the text for the selection state
InstructionText(sel) ==
    IF sel.IsDragging /\ sel.SpaceHeld THEN TextReposition ELSE TextSelect

\* drawInstructions: the pill rectangle, centred at the top
InstructionPill(sel, bw) ==
    LET text == InstructionText(sel)
        pillWidth == Len(text) * 7 + 20
    IN  [x |-> GoDiv(bw - pillWidth, 2), y |-> 16, w |-> pillWidth, h |-> 24,
         text |-> text]

\* DrawOverlay: the normalized selection rectangle
SelX1(sel) == minInt(sel.StartX, sel.EndX)
SelY1(sel) == minInt(sel.StartY, sel.EndY)
SelX2(sel) == maxInt(sel.StartX, sel.EndX)
SelY2(sel) == maxInt(sel.StartY, sel.EndY)
SelW(sel) == SelX2(sel) - SelX1(sel)
SelH(sel) == SelY2(sel) - SelY1(sel)

(* Inputs of the compositor: buffer sizes, screenshots smaller than, equal *)
(* to and larger than the buffer (or nil), selections with corners inside, *)
(* left of, above and beyond the buffer, dragged in either direction and   *)
(* degenerate (width or height 0 or 1).                                    *)

DcSizes == { <<1, 1>>, <<MaxDcW, MaxDcH>> }

ShotSizes(w, h) ==
    { <<w, h>>, <<w + 1, h + 1>> } \cup
    (IF w > 2 /\ h > 2 THEN { <<w - 2, h - 2>> } ELSE {})

Screenshots(w, h) ==
    {NilShot} \cup
    { [isNil |-> FALSE, w |-> s[1], h |-> s[2], pat |-> p] :
        s \in ShotSizes(w, h), p \in {"white", "ramp"} }

\* <<Start, End>> along one axis of a buffer of n pixels
Spans(n) ==
    { <<3, n - 3>>, <<n - 3, 3>>, <<4, 4>>, <<4, 5>>, <<-2, 5>>, <<5, n + 2>> }

Selections ==
    { [StartX |-> sx[1], EndX |-> sx[2], StartY |-> sy[1], EndY |-> sy[2],
       IsDragging |-> TRUE, SpaceHeld |-> sp] :
        sx \in Spans(MaxDcW), sy \in Spans(MaxDcH), sp \in BOOLEAN } \cup
    { [StartX |-> 0, EndX |-> 0, StartY |-> 0, EndY |-> 0,
       IsDragging |-> FALSE, SpaceHeld |-> sp] : sp \in BOOLEAN }

\* scaleRatio as <<numerator, denominator>>: 1.0 and 1.5
ScaleRatios == { <<1, 1>>, <<3, 2>> }

Primitives ==
    {"drawScreenshot", "fillOverlay", "clearRegion", "drawSelectionBorder",
     "drawCornerHandles", "drawSizeIndicator", "drawInstructions"}

NoWrites == [p \in Primitives |-> {}]

NoFrame ==
    [screenshot |-> NilShot, scaleRatio |-> <<1, 1>>,
     sel |-> [StartX |-> 0, EndX |-> 0, StartY |-> 0, EndY |-> 0,
              IsDragging |-> FALSE, SpaceHeld |-> FALSE]]

\* the handles GDI hands out: the memory DC, the DIB section, and the
\* bitmap a new memory DC has selected; 0 is the failure value
MemDCHandle == 1
DIBHandle == 2
StockBitmapHandle == 3

\* no *DrawContext
NilContext ==
    [width |-> 0, height |-> 0, HMemDC |-> 0, hBitmap |-> 0, hOldBitmap |-> 0]

\* no GDI object created, no GDI call made, Cleanup not called
NoGdi == [live |-> {}, selected |-> 0, calls |-> <<>>, cleanups |-> 0]

GdiCall(fn, h) == [fn |-> fn, h |-> h]

OverlayInit ==
    /\ dpc = "none"
    /\ dc = NilContext
    /\ gdi = NoGdi
    /\ frames = <<>>
    /\ pixels = <<>>
    /\ before = <<>>
    /\ frame = NoFrame
    /\ writes = NoWrites
    /\ drawLog = <<>>
    /\ shotReads = {}

\* the cell of element i of the pixel slice
CellOf(i) == <<(i - 1) % dc.width, (i - 1) \div dc.width>>

\* mutant: the background is restored after the border and the handles
NextPrimitive_RestoreLate(p, dragging) ==
    CASE p = "drawScreenshot" -> "fillOverlay"
      [] p = "fillOverlay" ->
            IF dragging THEN "drawSelectionBorder" ELSE "drawInstructions"
      [] p = "drawSelectionBorder" -> "drawCornerHandles"
      [] p = "drawCornerHandles" -> "clearRegion"
      [] p = "clearRegion" -> "drawSizeIndicator"
      [] p = "drawSizeIndicator" -> "drawInstructions"
      [] p = "drawInstructions" -> "shown"

\* DrawOverlay: the statement that follows the call of primitive p
NextPrimitive(p, dragging) ==
    CASE p = "drawScreenshot" -> "fillOverlay"
      [] p = "fillOverlay" ->
            IF dragging THEN "clearRegion" ELSE "drawInstructions"
      [] p = "clearRegion" -> "drawSelectionBorder"
      [] p = "drawSelectionBorder" -> "drawCornerHandles"
      [] p = "drawCornerHandles" -> "drawSizeIndicator"
      [] p = "drawSizeIndicator" -> "drawInstructions"
      [] p = "drawInstructions" -> "shown"

\* primitive p has run: what it wrote, the buffer it found, and what runs
\* next
Drawn(p, cells) ==
    /\ writes' = [writes EXCEPT ![p] = cells]
    /\ drawLog' = Append(drawLog, p)
    /\ before' = pixels
    /\ dpc' = NextPrimitive(p, frame.sel.IsDragging)

\* NewDrawContext(screenDC, width, height): CreateCompatibleDC and
\* CreateDIBSection may each return 0; CreateDIBSection hands out zeroed
\* memory; SelectObject returns the bitmap the DC had selected
NewDrawContext ==
    /\ dpc = "none"
    /\ \E hMemDC \in {0, MemDCHandle}, hBitmap \in {0, DIBHandle} :
        IF hMemDC = 0
        THEN /\ gdi' = [gdi EXCEPT !.calls = <<GdiCall("CreateCompatibleDC", 0)>>]
             /\ dpc' = "failed"
             /\ UNCHANGED <<dc, pixels, before>>
        ELSE IF hBitmap = 0
        THEN /\ gdi' = [gdi EXCEPT !.calls =
                        << GdiCall("CreateCompatibleDC", hMemDC),
                           GdiCall("CreateDIBSection", 0),
                           GdiCall("DeleteDC", hMemDC) >>]
             /\ dpc' = "failed"
             /\ UNCHANGED <<dc, pixels, before>>
        ELSE \E s \in DcSizes :
             /\ dc' = [width |-> s[1], height |-> s[2], HMemDC |-> hMemDC,
                       hBitmap |-> hBitmap, hOldBitmap |-> StockBitmapHandle]
             /\ gdi' = [live |-> {hMemDC, hBitmap},
                        selected |-> hBitmap,
                        calls |-> << GdiCall("CreateCompatibleDC", hMemDC),
                                     GdiCall("CreateDIBSection", hBitmap),
                                     GdiCall("SelectObject", hBitmap) >>,
                        cleanups |-> 0]
             /\ pixels' = [ i \in 1..(s[1] * s[2]) |-> Pack(0, 0, 0, 0) ]
             /\ before' = [ i \in 1..(s[1] * s[2]) |-> Pack(0, 0, 0, 0) ]
             /\ dpc' = "ready"
    /\ UNCHANGED <<frame, writes, drawLog, shotReads, frames, notOverlay>>

\* DrawOverlay(screenshot, sel, scaleRatio) is called
DrawOverlay ==
    /\ dpc = "ready"
    /\ \E shot \in Screenshots(dc.width, dc.height), s \in Selections,
          ratio \in ScaleRatios :
        frame' = [screenshot |-> shot, sel |-> s, scaleRatio |-> ratio]
    /\ dpc' = "drawScreenshot"
    /\ UNCHANGED <<dc, gdi, frames, pixels, before, writes, drawLog, shotReads,
                   notOverlay>>

\* 1. dc.drawScreenshot(screenshot)
drawScreenshot ==
    /\ dpc = "drawScreenshot"
    /\ LET shot == frame.screenshot
           cells == ScreenshotCells(shot, dc.width, dc.height)
       IN  /\ pixels' = [ i \in DOMAIN pixels |->
                            IF CellOf(i) \in cells
                            THEN ShotPixel(shot, CellOf(i)[1], CellOf(i)[2])
                            ELSE pixels[i] ]
           /\ shotReads' = shotReads \cup
                { SrcIdx(shot, c[1], c[2]) + k : c \in cells, k \in 0..2 }
           /\ Drawn("drawScreenshot", cells)
    /\ UNCHANGED <<dc, gdi, frames, frame, notOverlay>>

\* 2. dc.fillOverlay(128): every pixel is scaled, its alpha set to 255
fillOverlay ==
    /\ dpc = "fillOverlay"
    /\ pixels' = FillOverlay(pixels, 128)
    /\ Drawn("fillOverlay", Cells(dc.width, dc.height))
    /\ UNCHANGED <<dc, gdi, frames, frame, shotReads, notOverlay>>

\* 3. dc.clearRegion(x1, y1, w, h, screenshot)
clearRegion ==
    /\ dpc = "clearRegion"
    /\ LET shot == frame.screenshot
           cells == ClearCells(shot, SelX1(frame.sel), SelY1(frame.sel),
                               SelW(frame.sel), SelH(frame.sel),
                               dc.width, dc.height)
       IN  /\ pixels' = [ i \in DOMAIN pixels |->
                            IF CellOf(i) \in cells
                            THEN ShotPixel(shot, CellOf(i)[1], CellOf(i)[2])
                            ELSE pixels[i] ]
           /\ shotReads' = shotReads \cup
                { SrcIdx(shot, c[1], c[2]) + k : c \in cells, k \in 0..2 }
           /\ Drawn("clearRegion", cells)
    /\ UNCHANGED <<dc, gdi, frames, frame, notOverlay>>

\* the cells of a shape that pass the bounds test
Clip(cells) == { c \in cells : InBuffer(c[1], c[2], dc.width, dc.height) }

\* 4. dc.drawSelectionBorder(x1, y1, w, h)
drawSelectionBorder ==
    /\ dpc = "drawSelectionBorder"
    /\ LET cells == Clip(BorderCells(SelX1(frame.sel), SelY1(frame.sel),
                                     SelW(frame.sel), SelH(frame.sel)))
       IN  /\ pixels' = Store(pixels, dc.width, cells, blue)
           /\ Drawn("drawSelectionBorder", cells)
    /\ UNCHANGED <<dc, gdi, frames, frame, shotReads, notOverlay>>

\* 5. dc.drawCornerHandles(x1, y1, w, h)
drawCornerHandles ==
    /\ dpc = "drawCornerHandles"
    /\ LET cells == Clip(HandleCells(SelX1(frame.sel), SelY1(frame.sel),
                                     SelW(frame.sel), SelH(frame.sel)))
       IN  /\ pixels' = Store(pixels, dc.width, cells, blue)
           /\ Drawn("drawCornerHandles", cells)
    /\ UNCHANGED <<dc, gdi, frames, frame, shotReads, notOverlay>>

\* the size pill of the current frame: drawSizeIndicator(x1, y2+8, scaledW,
\* scaledH)
FramePill ==
    SizePill(SelX1(frame.sel), SelY2(frame.sel) + 8,
             Scaled(SelW(frame.sel), frame.scaleRatio),
             Scaled(SelH(frame.sel), frame.scaleRatio), dc.width, dc.height)

\* 6. dc.drawSizeIndicator(...): the pill, then its text over it
drawSizeIndicator ==
    /\ dpc = "drawSizeIndicator"
    /\ LET p == FramePill
           pill == Clip(RectCells(p.x, p.y, p.w, p.h))
           text == Clip(TextCells(font, p.x + 8, p.y + 4, p.text))
       IN  /\ pixels' = Store(Store(pixels, dc.width, pill, blue),
                              dc.width, text, white)
           /\ Drawn("drawSizeIndicator", pill \cup text)
    /\ UNCHANGED <<dc, gdi, frames, frame, shotReads, notOverlay>>

\* 7. dc.drawInstructions(sel): the pill, then its text over it
drawInstructions ==
    /\ dpc = "drawInstructions"
    /\ LET p == InstructionPill(frame.sel, dc.width)
           pill == Clip(RectCells(p.x, p.y, p.w, p.h))
           text == Clip(TextCells(instructionFont, p.x + 10, p.y + 6, p.text))
       IN  /\ pixels' = Store(Store(pixels, dc.width, pill, bgColor),
                              dc.width, text, white)
           /\ Drawn("drawInstructions", pill \cup text)
           /\ frames' = Append(frames, [frame |-> frame, pixels |-> pixels'])
    /\ UNCHANGED <<dc, gdi, frame, shotReads, notOverlay>>

\* dc.Cleanup(), called between frames; the context keeps its handles, so
\* a further call finds them non-zero again
Cleanup ==
    /\ dpc \in {"ready", "shown", "cleaned"}
    /\ gdi.cleanups < MaxCleanups
    /\ LET restore == IF dc.hOldBitmap # 0
                      THEN <<GdiCall("SelectObject", dc.hOldBitmap)>> ELSE <<>>
           delBitmap == IF dc.hBitmap # 0
                        THEN <<GdiCall("DeleteObject", dc.hBitmap)>> ELSE <<>>
           delDC == IF dc.HMemDC # 0
                    THEN <<GdiCall("DeleteDC", dc.HMemDC)>> ELSE <<>>
       IN  gdi' = [live |-> gdi.live \ {dc.hBitmap, dc.HMemDC},
                   selected |-> IF dc.hOldBitmap # 0 /\ dc.HMemDC \in gdi.live
                                THEN dc.hOldBitmap ELSE gdi.selected,
                   calls |-> gdi.calls \o restore \o delBitmap \o delDC,
                   cleanups |-> gdi.cleanups + 1]
    /\ dpc' = "cleaned"
    /\ UNCHANGED <<dc, pixels, before, frame, writes, drawLog, shotReads,
                   frames, notOverlay>>

\* the frames the caller's redraw loop asks for: no screenshot, one as large
\* as the buffer and, where the buffer allows, a smaller one; with no
\* selection and with one inside the buffer
RedrawFrames(w, h) ==
    { [screenshot |-> shot, sel |-> s, scaleRatio |-> <<1, 1>>] :
        shot \in { sh \in Screenshots(w, h) :
                    \/ sh.isNil
                    \/ sh.w = w /\ sh.h = h /\ sh.pat = "white"
                    \/ sh.w < w /\ sh.pat = "ramp" },
        s \in { sl \in Selections :
                    /\ ~sl.SpaceHeld
                    /\ sl.IsDragging =>
                        /\ <<sl.StartX, sl.EndX>> = <<3, MaxDcW - 3>>
                        /\ <<sl.StartY, sl.EndY>> = <<3, MaxDcH - 3>> } }

\* DrawOverlay(screenshot, sel, scaleRatio) is called on a new context or
\* after an earlier frame of the session: the buffer is as that frame left it
Redraw ==
    /\ dpc \in {"ready", "shown"}
    /\ Len(frames) < MaxFrames
    /\ \E f \in RedrawFrames(dc.width, dc.height) : frame' = f
    /\ dpc' = "drawScreenshot"
    /\ before' = pixels
    /\ writes' = NoWrites
    /\ drawLog' = <<>>
    /\ shotReads' = {}
    /\ UNCHANGED <<dc, gdi, frames, pixels, notOverlay>>

NextOverlay ==
    \/ NewDrawContext
    \/ DrawOverlay
    \/ drawScreenshot
    \/ fillOverlay
    \/ clearRegion
    \/ drawSelectionBorder
    \/ drawCornerHandles
    \/ drawSizeIndicator
    \/ drawInstructions
    \/ Cleanup

\* a session of several frames on one context
NextRedraw ==
    \/ NewDrawContext
    \/ Redraw
    \/ drawScreenshot
    \/ fillOverlay
    \/ clearRegion
    \/ drawSelectionBorder
    \/ drawCornerHandles
    \/ drawSizeIndicator
    \/ drawInstructions

-----------------------------------------------------------------------------
(* fillOverlay as a function of the buffer and of its argument: buffers of *)
(* two pixels drawn from sample pixels, darkened with a sample alpha.      *)

PixelSamples ==
    { Pack(255, 255, 255, 255), Pack(255, 0, 0, 0), Pack(0, 1, 128, 254),
      Pack(220, 51, 102, 204), Pack(255, 200, 100, 3), Pack(255, 0, 120, 215) }

Alphas == {0, 100, 128, 255}

NoFill == [alpha |-> -1, buf |-> <<>>, out |-> <<>>]

\* buffers that hold the pill with room to spare, that hold it barely, and
\* that are smaller than it
PillBuffers == { <<60, 50>>, <<60, 40>>, <<53, 50>>, <<12, 26>> }

\* selections with both corners inside a buffer of bw x bh
InsideSelections(bw, bh) ==
    { [StartX |-> sx, EndX |-> ex, StartY |-> sy, EndY |-> ey,
       IsDragging |-> TRUE, SpaceHeld |-> FALSE] :
        sx \in {0, 5, bw - 1}, ex \in {0, 5, bw - 1},
        sy \in {0, 15, bh - 1}, ey \in {0, 15, bh - 1} }

NoPill ==
    [bw |-> 0, bh |-> 0, sel |-> NoFrame.sel, scaleRatio |-> <<1, 1>>,
     pill |-> [x |-> 0, y |-> 0, w |-> 0, h |-> 0, text |-> <<>>]]

NoText ==
    [font |-> "none", x |-> 0, y |-> 0, text |-> <<>>, bw |-> 0, bh |-> 0,
     chars |-> <<>>]

PureInit == fill = NoFill /\ placed = NoPill /\ typed = NoText

\* dc.fillOverlay(alpha) on a buffer
ApplyFillOverlay ==
    /\ fill = NoFill
    /\ \E p1 \in PixelSamples, p2 \in PixelSamples, alpha \in Alphas :
        fill' = [alpha |-> alpha, buf |-> <<p1, p2>>,
                 out |-> FillOverlay(<<p1, p2>>, alpha)]
    /\ UNCHANGED <<placed, typed, notPure>>

NextFill == ApplyFillOverlay

\* DrawOverlay with an active selection, as far as the size pill goes:
\* dc.drawSizeIndicator(x1, y2+8, scaledW, scaledH)
ApplySizePill ==
    /\ placed = NoPill
    /\ \E b \in PillBuffers, ratio \in ScaleRatios :
       \E s \in InsideSelections(b[1], b[2]) :
        placed' = [bw |-> b[1], bh |-> b[2], sel |-> s, scaleRatio |-> ratio,
                   pill |-> SizePill(SelX1(s), SelY2(s) + 8,
                                     Scaled(SelW(s), ratio),
                                     Scaled(SelH(s), ratio), b[1], b[2])]
    /\ UNCHANGED <<fill, typed, notPure>>

NextPill == ApplySizePill

-----------------------------------------------------------------------------
(* drawText and drawInstructionText as functions of the origin and the     *)
(* string: the loop over the characters with its cursor curX, on strings   *)
(* with and without characters missing from the glyph table.               *)

\* the two glyph tables, by the name of the function that holds them
FontOf(name) == IF name = "drawText" THEN font ELSE instructionFont

\* the inner loops over col and row for one glyph at cursor curX, bounds
\* test included: the cells set to white
GlyphCells(glyph, curX, y, bw, bh) ==
    { c \in { <<curX + (col - 1), y + row>> : col \in DOMAIN glyph, row \in 0..6 } :
        /\ GlyphBit(glyph[c[1] - curX + 1], c[2] - y)
        /\ InBuffer(c[1], c[2], bw, bh) }

\* mutant: a character missing from the table does not advance the cursor
NextCurX_MappedOnly(f, ch, curX) == IF ch \in DOMAIN f THEN curX + 6 ELSE curX

\* curX += 6, on the !ok path and at the end of the loop body
NextCurX(f, ch, curX) == curX + 6

\* for _, ch := range text, from character i on with the cursor at curX:
\* the cells each character sets
RECURSIVE TextLoop(_, _, _, _, _, _, _)
TextLoop(f, text, i, curX, y, bw, bh) ==
    IF i > Len(text)
    THEN <<>>
    ELSE << IF text[i] \in DOMAIN f
            THEN GlyphCells(f[text[i]], curX, y, bw, bh)
            ELSE {} >>
         \o TextLoop(f, text, i + 1, NextCurX(f, text[i], curX), y, bw, bh)

\* the strings drawn: the two instruction texts, a size text, and strings
\* with characters neither table holds
Texts ==
    { TextSelect, TextReposition, SizeText(12, 5),
      <<"-", "3", " ", "x", "?", "7">>, <<"E", "S", "C", "?", "1">> }

TextOrigins == { <<x, y>> : x \in {-7, 0, 3}, y \in {-3, 0, 2} }

\* buffers wider and narrower than the strings
TextBuffers == { <<260, 9>>, <<20, 5>> }

\* dc.drawText(x, y, text, pixels) or dc.drawInstructionText(x, y, text, pixels)
ApplyDrawText ==
    /\ typed = NoText
    /\ \E name \in {"drawText", "drawInstructionText"}, text \in Texts,
          o \in TextOrigins, b \in TextBuffers :
        typed' = [font |-> name, x |-> o[1], y |-> o[2], text |-> text,
                  bw |-> b[1], bh |-> b[2],
                  chars |-> TextLoop(FontOf(name), text, 1, o[1], o[2],
                                     b[1], b[2])]
    /\ UNCHANGED <<fill, placed, notPure>>

NextText == ApplyDrawText

-----------------------------------------------------------------------------
(* The region selector of the frontend, RegionSelector in                  *)
(* frontend/src/components/title-bar.tsx.  Its state is isDrawing,         *)
(* startPos and currentPos; isOpen is a prop that the parent owns.  The    *)
(* mouse handlers are attached to the overlay element, which is rendered   *)
(* only while isOpen holds, and the key handler is registered only while   *)
(* isOpen holds.  Each handler runs to its end before the next event.      *)

\* clientX and clientY of the mouse events: points 5, 10, 11 and 16 pixels
\* apart
Points ==
    { [x |-> 5, y |-> 5], [x |-> 10, y |-> 10], [x |-> 10, y |-> 5],
      [x |-> 15, y |-> 21], [x |-> 21, y |-> 21] }

Origin == [x |-> 0, y |-> 0]

NoRelease ==
    [ev |-> "none", start |-> Origin, cur |-> Origin, before |-> 0, count |-> 0,
     carried |-> FALSE]

\* MouseEvent.button: 0 is the primary button, 2 the secondary one
Buttons == {0, 2}

\* no drag has been entered; carried says that the drag in progress was
\* begun before the selector was last closed
NoEntry == [down |-> Origin, button |-> 0, carried |-> FALSE]

SelectorInit ==
    /\ isOpen = FALSE
    /\ isDrawing = FALSE
    /\ startPos = Origin
    /\ currentPos = Origin
    /\ selected = <<>>
    /\ released = NoRelease
    /\ entered = NoEntry

\* mutant: a selection of exactly 10 pixels counts as meaningful
Meaningful_AtLeast(w, h) == w >= 10 /\ h >= 10

\* if (width > 10 && height > 10)
Meaningful(w, h) == w > 10 /\ h > 10

\* Math.abs
MathAbs(v) == IF v < 0 THEN 0 - v ELSE v

\* the parent renders the selector with isOpen = true
OpenSelector ==
    /\ ~isOpen
    /\ isOpen' = TRUE
    /\ entered' = [entered EXCEPT !.carried = isDrawing]
    /\ UNCHANGED <<isDrawing, startPos, currentPos, selected, released,
                   notSelector>>

\* onMouseDown
handleMouseDown ==
    /\ isOpen
    /\ released.count < MaxReleases
    /\ \E e \in Points, button \in Buttons :
        /\ isDrawing' = TRUE
        /\ startPos' = [x |-> e.x, y |-> e.y]
        /\ currentPos' = [x |-> e.x, y |-> e.y]
        /\ entered' = IF isDrawing
                      THEN [entered EXCEPT !.carried = FALSE]
                      ELSE [down |-> [x |-> e.x, y |-> e.y],
                            button |-> button, carried |-> FALSE]
    /\ UNCHANGED <<isOpen, selected, released, notSelector>>

\* onMouseMove
handleMouseMove ==
    /\ isOpen
    /\ \E e \in Points :
        IF ~isDrawing
        THEN UNCHANGED currentPos
        ELSE currentPos' = [x |-> e.x, y |-> e.y]
    /\ UNCHANGED <<isOpen, isDrawing, startPos, selected, released, entered,
                   notSelector>>

\* onMouseUp and onMouseLeave; onSelect is the parent's callback, which
\* may close the selector
handleMouseUp ==
    /\ isOpen
    /\ \E ev \in {"mouseup", "mouseleave"}, closes \in BOOLEAN :
        IF ~isDrawing
        THEN UNCHANGED <<isOpen, isDrawing, startPos, currentPos, selected,
                         released, entered>>
        ELSE LET x == minInt(startPos.x, currentPos.x)
                 y == minInt(startPos.y, currentPos.y)
                 w == MathAbs(currentPos.x - startPos.x)
                 h == MathAbs(currentPos.y - startPos.y)
             IN  /\ isDrawing' = FALSE
                 /\ IF Meaningful(w, h)
                    THEN /\ selected' = Append(selected,
                                [x |-> x, y |-> y, width |-> w, height |-> h])
                         /\ isOpen' = ~closes
                    ELSE UNCHANGED <<selected, isOpen>>
                 /\ startPos' = Origin
                 /\ currentPos' = Origin
                 /\ released' = [ev |-> ev, start |-> startPos,
                                 cur |-> currentPos, before |-> Len(selected),
                                 count |-> released.count + 1,
                                 carried |-> entered.carried]
                 /\ entered' = NoEntry
    /\ UNCHANGED notSelector

\* keydown with e.key === 'Escape': onClose(), and the parent closes the
\* selector
handleKeyDown ==
    /\ isOpen
    /\ isOpen' = FALSE
    /\ UNCHANGED <<isDrawing, startPos, currentPos, selected, released,
                   entered, notSelector>>

NextSelector ==
    \/ OpenSelector
    \/ handleMouseDown
    \/ handleMouseMove
    \/ handleMouseUp
    \/ handleKeyDown

-----------------------------------------------------------------------------
(* The settings panel: the list of uploaded background images, filled by   *)
(* file reads that finish some time after the upload that started them.    *)

MAX_BACKGROUND_IMAGES == 8

\* GRADIENT_PRESETS[0].value
FirstGradient == 0

\* the data URL the reader produces for the file of upload k; the stored
\* images are numbered from 1
DataUrl(k) == 100 + k

\* the lists localStorage may hold under STORAGE_KEY: none, and lists below,
\* at and above the limit
StoredLists == { [ i \in 1..n |-> i ] : n \in {0, 7, 8, 10} }

\* images.slice(0, n)
Slice(images, n) == SubSeq(images, 1, minInt(Len(images), n))

PanelInit ==
    panel = [mounted |-> FALSE, uploadedImages |-> <<>>, readers |-> {},
             started |-> 0, backgroundColor |-> FirstGradient]

\* the effect that runs on mount
LoadStoredImages ==
    /\ ~panel.mounted
    /\ \E images \in StoredLists :
        panel' = [panel EXCEPT !.mounted = TRUE,
                    !.uploadedImages = Slice(images, MAX_BACKGROUND_IMAGES)]
    /\ UNCHANGED notPanel

\* uploadedImages.length < MAX_BACKGROUND_IMAGES
MayUpload(images) == Len(images) < MAX_BACKGROUND_IMAGES

\* onChange of the file input: the read of the chosen file is started
handleImageUpload ==
    /\ panel.mounted
    /\ panel.started < MaxUploads
    /\ \E hasFile \in BOOLEAN :
        IF hasFile /\ MayUpload(panel.uploadedImages)
        THEN panel' = [panel EXCEPT !.started = @ + 1,
                        !.readers = @ \cup {panel.started + 1}]
        ELSE panel' = [panel EXCEPT !.started = @ + 1]
    /\ UNCHANGED notPanel

\* reader.onload of the read started by upload k
ReaderOnload ==
    /\ \E k \in panel.readers :
        panel' = [panel EXCEPT !.readers = @ \ {k},
                    !.uploadedImages = Append(@, DataUrl(k)),
                    !.backgroundColor = DataUrl(k)]
    /\ UNCHANGED notPanel

\* prev.filter((_, i) => i !== index), index counted from 0
RemoveAt(images, index) ==
    [ i \in 1..(Len(images) - 1) |->
        IF i <= index THEN images[i] ELSE images[i + 1] ]

handleRemoveImage ==
    /\ panel.mounted
    /\ \E index \in 0..(Len(panel.uploadedImages) - 1) :
        LET imageToRemove == panel.uploadedImages[index + 1]
        IN  panel' = [panel EXCEPT
                        !.uploadedImages = RemoveAt(@, index),
                        !.backgroundColor =
                            IF @ = imageToRemove THEN FirstGradient ELSE @]
    /\ UNCHANGED notPanel

handleSelectImage ==
    /\ panel.mounted
    /\ \E i \in DOMAIN panel.uploadedImages :
        panel' = [panel EXCEPT !.backgroundColor = panel.uploadedImages[i]]
    /\ UNCHANGED notPanel

NextPanel ==
    \/ LoadStoredImages
    \/ handleImageUpload
    \/ ReaderOnload
    \/ handleRemoveImage
    \/ handleSelectImage

-----------------------------------------------------------------------------
(* constrainCrop of the crop overlay.  Its numbers are JavaScript doubles;  *)
(* the model computes with exact multiples of 1/144 of a pixel, in which   *)
(* every quotient and product by one of the aspect ratios is a whole       *)
(* number for whole-pixel inputs.                                          *)

\* one pixel, in the units the crop arithmetic is carried out in
Px == 144

\* ASPECT_RATIO_VALUES as <<numerator, denominator>>; 'free' is null
AspectRatios == {"free", "16:9", "4:3", "1:1", "9:16", "3:4"}

ASPECT_RATIO_VALUES(aspectRatio) ==
    CASE aspectRatio = "16:9" -> <<16, 9>>
      [] aspectRatio = "4:3" -> <<4, 3>>
      [] aspectRatio = "1:1" -> <<1, 1>>
      [] aspectRatio = "9:16" -> <<9, 16>>
      [] aspectRatio = "3:4" -> <<3, 4>>
      [] OTHER -> <<>>

\* v / ratio and v * ratio
DivRatio(v, ratio) == (v * ratio[2]) \div ratio[1]
MulRatio(v, ratio) == (v * ratio[1]) \div ratio[2]

\* constrainCrop(newArea) for the props aspectRatio, imageWidth,
\* imageHeight, paddingX, paddingY; every length in units of 1/144 pixel
constrainCrop(newArea, aspectRatio, imageWidth, imageHeight, paddingX, paddingY) ==
    LET ratio == ASPECT_RATIO_VALUES(aspectRatio)
        fixed == ratio # <<>>
        w0 == maxInt(20 * Px, newArea.width)
        h0 == maxInt(20 * Px, newArea.height)
        h1 == IF fixed THEN DivRatio(w0, ratio) ELSE h0
        x1 == maxInt(paddingX, minInt(newArea.x, paddingX + imageWidth - w0))
        y1 == maxInt(paddingY, minInt(newArea.y, paddingY + imageHeight - h1))
        over == x1 + w0 > paddingX + imageWidth
        w2 == IF over THEN paddingX + imageWidth - x1 ELSE w0
        h2 == IF over /\ fixed THEN DivRatio(w2, ratio) ELSE h1
        under == y1 + h2 > paddingY + imageHeight
        h3 == IF under THEN paddingY + imageHeight - y1 ELSE h2
        w3 == IF under /\ fixed THEN MulRatio(h3, ratio) ELSE w2
    IN  [x |-> x1, y |-> y1, width |-> w3, height |-> h3]

\* the images cropped, in pixels: the smallest one, a wide one, a tall one
\* and one of 16:9
CropImages == { <<20, 20>>, <<100, 20>>, <<20, 100>>, <<64, 36>> }

\* the areas the drag and transform handlers pass, in pixels: left of,
\* inside and beyond the image, below and above the minimum size
CropAreas ==
    { [x |-> ax, y |-> ay, width |-> aw, height |-> ah] :
        ax \in {-5, 10, 50}, ay \in {-5, 10, 50},
        aw \in {0, 20, 32, 200}, ah \in {0, 18, 200} }

CropPaddings == {0, 10}

NoCrop ==
    [aspectRatio |-> "none", imageWidth |-> 0, imageHeight |-> 0,
     paddingX |-> 0, paddingY |-> 0,
     newArea |-> [x |-> 0, y |-> 0, width |-> 0, height |-> 0],
     area |-> [x |-> 0, y |-> 0, width |-> 0, height |-> 0]]

CropInit == crop = NoCrop

\* a drag or transform ends: onCropChange(constrainCrop(newArea))
ApplyConstrainCrop ==
    /\ crop = NoCrop
    /\ \E a \in CropAreas, aspect \in AspectRatios, image \in CropImages,
          pad \in CropPaddings :
        LET na == [x |-> a.x * Px, y |-> a.y * Px,
                   width |-> a.width * Px, height |-> a.height * Px]
        IN  crop' = [aspectRatio |-> aspect,
                     imageWidth |-> image[1] * Px, imageHeight |-> image[2] * Px,
                     paddingX |-> pad * Px, paddingY |-> pad * Px,
                     newArea |-> na,
                     area |-> constrainCrop(na, aspect, image[1] * Px,
                                            image[2] * Px, pad * Px, pad * Px)]
    /\ UNCHANGED notCrop

NextCrop == ApplyConstrainCrop

-----------------------------------------------------------------------------
(* One call of CaptureWindowByCoords: the window rectangle is asked of DWM *)
(* or of GetWindowRect, then the screen region is captured and encoded.    *)

\* the rectangles the window manager reports, Right and Bottom on either
\* side of Left and Top
Rects ==
    { [Left |-> l, Top |-> t, Right |-> r, Bottom |-> b] :
        l \in {-8, 0, 10}, t \in {-8, 0, 10},
        r \in {-8, 0, 10, 30}, b \in {-8, 0, 10, 30} }

\* var rect RECT
ZeroRect == [Left |-> 0, Top |-> 0, Right |-> 0, Bottom |-> 0]

NilCapture == [Width |-> 0, Height |-> 0, Data |-> "nil"]

CaptureInit ==
    capture = [pc |-> "start", via |-> "none", rect |-> ZeroRect,
               res |-> NilCapture, err |-> ErrNil]

\* the rectangle query: DwmGetWindowAttribute when dwmapi loads, and
\* GetWindowRect when it does not or when DWM fails; GetWindowRect's own
\* failure is not tested and leaves rect as it was
GetWindowBounds ==
    /\ capture.pc = "start"
    /\ \E dwmLoaded \in BOOLEAN, dwmOk \in BOOLEAN, rectOk \in BOOLEAN,
          r \in Rects :
        capture' = [capture EXCEPT
            !.pc = "bounds",
            !.via = IF dwmLoaded /\ dwmOk THEN "DwmGetWindowAttribute"
                    ELSE "GetWindowRect",
            !.rect = IF (dwmLoaded /\ dwmOk) \/ rectOk THEN r ELSE ZeroRect]
    /\ UNCHANGED notCapture

\* return nil, nil
EmptyRectReturn == [res |-> NilCapture, err |-> ErrNil]

\* CaptureRegion(x, y, width, height): screenshot.Capture and png.Encode may
\* each fail; Data stands for the base64 text of the encoded image
CaptureRegion(x, y, w, h, captured, encoded) ==
    IF ~captured THEN [res |-> NilCapture, err |-> "capture failed"]
    ELSE IF ~encoded THEN [res |-> NilCapture, err |-> "encode failed"]
    ELSE [res |-> [Width |-> w, Height |-> h, Data |-> "png"], err |-> ErrNil]

\* the dimension test and the capture
ReturnCapture ==
    /\ capture.pc = "bounds"
    /\ \E captured \in BOOLEAN, encoded \in BOOLEAN :
        LET x == capture.rect.Left
            y == capture.rect.Top
            w == capture.rect.Right - capture.rect.Left
            h == capture.rect.Bottom - capture.rect.Top
            ret == IF w <= 0 \/ h <= 0
                   THEN EmptyRectReturn
                   ELSE CaptureRegion(x, y, w, h, captured, encoded)
        IN  capture' = [capture EXCEPT !.pc = "returned",
                                       !.res = ret.res, !.err = ret.err]
    /\ UNCHANGED notCapture

NextCapture ==
    \/ GetWindowBounds
    \/ ReturnCapture

-----------------------------------------------------------------------------
(* The settings dialog: GetConfig and SaveConfig are calls to the backend  *)
(* that return some time after they were made.  A configuration is        *)
(* followed through two of its fields, export.jpegQuality and              *)
(* startup.launchOnStartup.                                                *)

\* the configurations the backend may hold; a quality of 0 is a field the
\* stored file does not set
BackendConfigs ==
    [jpegQuality : {0, 80, 95}, launchOnStartup : BOOLEAN]

\* the configurations the dialog's controls can produce
LocalConfigs == [jpegQuality : {80, 95}, launchOnStartup : BOOLEAN]

defaultConfig == [jpegQuality |-> 95, launchOnStartup |-> FALSE]

\* loadConfig's conversion: cfg.export?.jpegQuality || 95 and
\* cfg.startup?.launchOnStartup || false
ToLocal(cfg) ==
    [jpegQuality |-> IF cfg.jpegQuality = 0 THEN 95 ELSE cfg.jpegQuality,
     launchOnStartup |-> cfg.launchOnStartup]

\* handleSave's conversion: new config.Config({...}) from the local fields
ToBackend(local) ==
    [jpegQuality |-> local.jpegQuality,
     launchOnStartup |-> local.launchOnStartup]

NoSave == [inFlight |-> FALSE, localConfig |-> defaultConfig]

NoEvent ==
    [ev |-> "none", isOpen |-> FALSE, localConfig |-> defaultConfig,
     originalConfig |-> defaultConfig, saving |-> NoSave,
     backend |-> [jpegQuality |-> 0, launchOnStartup |-> FALSE]]

\* the backend before a configuration was stored: the fields' zero values
UnsetConfig == [jpegQuality |-> 0, launchOnStartup |-> FALSE]

DialogInit ==
    dialog = [isOpen |-> FALSE, localConfig |-> defaultConfig,
              originalConfig |-> defaultConfig, isSaving |-> FALSE,
              error |-> "null", loads |-> 0, saving |-> NoSave,
              backend |-> UnsetConfig, reference |-> defaultConfig,
              last |-> NoEvent]

\* history: the event ev found the dialog as it is now
Event(ev) ==
    [ev |-> ev, isOpen |-> dialog.isOpen, localConfig |-> dialog.localConfig,
     originalConfig |-> dialog.originalConfig, saving |-> dialog.saving,
     backend |-> dialog.backend]

\* the configuration an earlier session stored, before the dialog is
\* first opened
StoredConfig ==
    /\ dialog.last.ev = "none"
    /\ dialog.backend = UnsetConfig
    /\ \E stored \in BackendConfigs \ {UnsetConfig} :
        dialog' = [dialog EXCEPT !.backend = stored]
    /\ UNCHANGED notDialog

\* the parent sets isOpen, and the effect calls loadConfig: GetConfig()
OpenDialog ==
    /\ ~dialog.isOpen
    /\ dialog.loads < MaxLoads
    /\ dialog' = [dialog EXCEPT !.isOpen = TRUE, !.loads = @ + 1,
                                !.last = Event("open")]
    /\ UNCHANGED notDialog

\* loadConfig after await GetConfig(): the configuration or the catch
loadConfig ==
    /\ dialog.loads > 0
    /\ \E ok \in BOOLEAN :
        IF ok
        THEN dialog' = [dialog EXCEPT
                            !.loads = @ - 1,
                            !.localConfig = ToLocal(dialog.backend),
                            !.originalConfig = ToLocal(dialog.backend),
                            !.error = "null",
                            !.reference = ToLocal(dialog.backend),
                            !.last = Event("loaded")]
        ELSE dialog' = [dialog EXCEPT
                            !.loads = @ - 1,
                            !.error = "Failed to load settings",
                            !.last = Event("loadFailed")]
    /\ UNCHANGED notDialog

\* a control's onChange: setLocalConfig
EditConfig ==
    /\ dialog.isOpen
    /\ \E c \in LocalConfigs \ {dialog.localConfig} :
        dialog' = [dialog EXCEPT !.localConfig = c, !.last = Event("edit")]
    /\ UNCHANGED notDialog

\* handleSave up to await SaveConfig(cfg); the button is disabled while
\* isSaving
handleSave ==
    /\ dialog.isOpen
    /\ ~dialog.isSaving
    /\ dialog' = [dialog EXCEPT
                    !.isSaving = TRUE,
                    !.error = "null",
                    !.saving = [inFlight |-> TRUE,
                                localConfig |-> dialog.localConfig],
                    !.last = Event("save")]
    /\ UNCHANGED notDialog

\* handleSave after await SaveConfig(cfg): localConfig is the one the
\* handler was called with
SaveConfigReturns ==
    /\ dialog.saving.inFlight
    /\ \E ok \in BOOLEAN :
        IF ok
        THEN dialog' = [dialog EXCEPT
                            !.backend = ToBackend(dialog.saving.localConfig),
                            !.originalConfig = dialog.saving.localConfig,
                            !.isOpen = FALSE,
                            !.isSaving = FALSE,
                            !.saving = NoSave,
                            !.reference = dialog.saving.localConfig,
                            !.last = Event("saved")]
        ELSE dialog' = [dialog EXCEPT
                            !.error = "Failed to save settings",
                            !.isSaving = FALSE,
                            !.saving = NoSave,
                            !.last = Event("saveFailed")]
    /\ UNCHANGED notDialog

\* mutant: Cancel keeps the edits
Reverted_KeepsEdits(localConfig, originalConfig) == localConfig

\* setLocalConfig(originalConfig)
Reverted(localConfig, originalConfig) == originalConfig

handleCancel ==
    /\ dialog.isOpen
    /\ dialog' = [dialog EXCEPT
                    !.localConfig = Reverted(@, dialog.originalConfig),
                    !.error = "null",
                    !.isOpen = FALSE,
                    !.last = Event("cancel")]
    /\ UNCHANGED notDialog

NextSettings ==
    \/ StoredConfig
    \/ OpenDialog
    \/ loadConfig
    \/ EditConfig
    \/ handleSave
    \/ SaveConfigReturns
    \/ handleCancel

-----------------------------------------------------------------------------
Init ==
    /\ CallInit /\ ConcInit /\ OverlayInit /\ PureInit /\ SelectorInit
    /\ PanelInit /\ CropInit /\ CaptureInit /\ DialogInit

Spec == Init /\ [][Next]_vars

SpecConcurrent == Init /\ [][NextConcurrent]_vars

SpecOverlay == Init /\ [][NextOverlay]_vars

SpecFill == Init /\ [][NextFill]_vars

SpecPill == Init /\ [][NextPill]_vars
SpecText == Init /\ [][NextText]_vars
SpecRedraw == Init /\ [][NextRedraw]_vars
SpecPanel == Init /\ [][NextPanel]_vars
SpecCrop == Init /\ [][NextCrop]_vars
SpecCapture == Init /\ [][NextCapture]_vars
SpecSettings == Init /\ [][NextSettings]_vars

SpecSelector == Init /\ [][NextSelector]_vars

-----------------------------------------------------------------------------
(* Vocabulary of the properties.  These restate the specification's own    *)
(* formulas and do not use the decoder's operators.                        *)

Done == pc = "done"

\* the conversion loops have run to their end
Converted ==
    \/ pc = "encode"
    \/ pc \in {"return", "done"} /\ result.err = ErrNil

\* the header has been parsed from the buffer
HeaderParsed == pc \in {"layout", "convert", "encode"} \/
                (pc \in {"return", "done"} /\ reads # {})

CallCount(fn) == Cardinality({ i \in DOMAIN calls : calls[i].fn = fn })
CallSucceeded(fn) == \E i \in DOMAIN calls : calls[i].fn = fn /\ calls[i].ret # 0

\* stride: width * bitDepth rounded up to a multiple of 32 bits, in bytes
ClaimStride(w, bits) ==
    LET b == w * bits IN (IF b % 32 = 0 THEN b ELSE b + 32 - (b % 32)) \div 8

ClaimAbs(h) == IF h < 0 THEN 0 - h ELSE h

\* header size plus colour table (none above 8 bits)
ClaimPixelOffset(hd) ==
    hd.BiSize + (IF hd.BiBitCount > 8 THEN 0
                 ELSE IF hd.BiClrUsed > 0 THEN 4 * hd.BiClrUsed
                 ELSE 4 * (2 ^ hd.BiBitCount))

\* the smallest declared length that holds the header's pixel rows
ClaimThreshold(hd) ==
    ClaimPixelOffset(hd)
        + ClaimStride(hd.BiWidth, hd.BiBitCount) * ClaimAbs(hd.BiHeight)

\* source row of logical row y: rows are stored bottom-up iff the header
\* height is positive
ClaimSrcRow(hd, y) == IF hd.BiHeight > 0 THEN hd.BiHeight - 1 - y ELSE y

\* address of the source bytes of output pixel (x, y)
ClaimSrcAddr(hd, x, y) ==
    ClaimPixelOffset(hd)
        + ClaimSrcRow(hd, y) * ClaimStride(hd.BiWidth, hd.BiBitCount)
        + x * (hd.BiBitCount \div 8)

\* the byte the buffer (or, outside it, the process) holds at offset i
Mem(i) == ByteAt(size, header, pattern, garbage, i)

Xs == 0..(header.BiWidth - 1)
Ys == 0..(ClaimAbs(header.BiHeight) - 1)
Pixel(x, y) == img[y * header.BiWidth + x + 1]

\* a 24- or 32-bit header with positive width and non-zero height, in a
\* buffer that holds the whole header
Decodable ==
    /\ HeaderParsed
    /\ header.BiBitCount \in {24, 32}
    /\ header.BiWidth > 0
    /\ header.BiHeight # 0
    /\ size >= HeaderSize

\* ... and whose declared length holds all its pixel rows
WellFormed == Decodable /\ size >= ClaimThreshold(header)

-----------------------------------------------------------------------------
(* C1: every byte GetClipboardImage reads, header fields and pixel bytes   *)
(* alike, lies at an offset in [0, L) of the buffer of declared length L;  *)
(* in particular a header whose pixel-data offset is larger than L never   *)
(* passes the layout validation.                                           *)
C1_ReadsInBounds ==
    /\ \A r \in reads : 0 <= r /\ r < size
    /\ pc \in {"convert", "encode"} => pixelOffset <= size

(* C2: on every return after OpenClipboard succeeded CloseClipboard has    *)
(* been called exactly once, on every return after GlobalLock succeeded    *)
(* GlobalUnlock has been called exactly once, and where OpenClipboard was  *)
(* not called or failed CloseClipboard (and GlobalUnlock) is never called. *)
C2_ReleaseExactlyOnce ==
    /\ CallCount("CloseClipboard") <= (IF CallSucceeded("OpenClipboard") THEN 1 ELSE 0)
    /\ CallCount("GlobalUnlock") <= (IF CallSucceeded("GlobalLock") THEN 1 ELSE 0)
    /\ Done =>
        /\ CallCount("CloseClipboard") = (IF CallSucceeded("OpenClipboard") THEN 1 ELSE 0)
        /\ CallCount("GlobalUnlock") = (IF CallSucceeded("GlobalLock") THEN 1 ELSE 0)
        /\ ~clipOpen /\ ~globalLocked

\* an error return taken after GlobalLock succeeded
C2_Witness ==
    /\ Done
    /\ result.err = ErrLayout
    /\ CallSucceeded("GlobalLock")
    /\ CallCount("CloseClipboard") = 1
    /\ CallCount("GlobalUnlock") = 1

(* C3: the OS-thread pin is taken before the first clipboard call and      *)
(* dropped only after CloseClipboard, so the clipboard is only ever held   *)
(* under the pin; the exit order is GlobalUnlock, CloseClipboard,          *)
(* UnlockOSThread; and the pin is dropped on every return, also on those   *)
(* taken before OpenClipboard is called.                                   *)
C3_PinCoversClipboard ==
    /\ clipOpen => osThreadLocked
    /\ globalLocked => clipOpen
    /\ calls # <<>> => calls[1].fn = "LockOSThread"
    /\ \A i \in DOMAIN calls : calls[i].fn = "UnlockOSThread" => i = Len(calls)
    /\ \A i, j \in DOMAIN calls :
        calls[i].fn = "CloseClipboard" /\ calls[j].fn = "GlobalUnlock" => j < i
    /\ Done =>
        /\ ~osThreadLocked
        /\ CallCount("LockOSThread") = 1
        /\ CallCount("UnlockOSThread") = 1

\* a return that ran all three deferred calls
C3_Witness ==
    /\ Done
    /\ CallCount("GlobalUnlock") = 1
    /\ CallCount("CloseClipboard") = 1
    /\ CallCount("UnlockOSThread") = 1

(* C4: when an input violates several validation steps at once the error  *)
(* reported is that of the earliest violated step in the order TooLarge,   *)
(* InvalidDimensions, UnsupportedDepth, InvalidLayout; in particular valid *)
(* dimensions with a bit depth other than 24 or 32 and too few pixel bytes *)
(* give UnsupportedDepth, not InvalidLayout.  (Stated for buffers that     *)
(* hold their header and their pixel-data offset, where every read of the  *)
(* validation is defined.)                                                 *)
C4_EarliestViolatedStep ==
    /\ Done /\ size > maxClipboardSize => result.err = ErrTooLarge
    /\ Done /\ HeaderParsed /\ size >= HeaderSize
            /\ ClaimPixelOffset(header) <= size =>
        result.err =
            IF header.BiWidth <= 0 \/ header.BiHeight = 0 THEN ErrDimensions
            ELSE IF header.BiBitCount \notin {24, 32} THEN ErrBitDepth
            ELSE IF size < ClaimThreshold(header) THEN ErrLayout
            ELSE ErrNil

(* C5 as stated: a well-formed 24- or 32-bit buffer decodes successfully   *)
(* to width W, height |H|, W*|H| pixels, every one of them with alpha 255. *)
C5_EveryPixelOpaque ==
    WellFormed =>
        /\ pc # "crashed"
        /\ Done =>
            /\ result.err = ErrNil
            /\ Len(result.res) = 1
            /\ result.res[1].Width = header.BiWidth
            /\ result.res[1].Height = ClaimAbs(header.BiHeight)
            /\ Len(result.res[1].Data[2]) = header.BiWidth * ClaimAbs(header.BiHeight)
            /\ \A k \in DOMAIN result.res[1].Data[2] :
                result.res[1].Data[2][k][4] = 255

(* C5 amended: a well-formed 24- or 32-bit buffer decodes successfully to  *)
(* width W, height |H| and W*|H| pixels; every pixel of a 24-bit source is *)
(* fully opaque, and every pixel of a 32-bit source has a non-zero alpha:  *)
(* 255 where the source alpha is 0 or 255, the source alpha otherwise.     *)
C5_DecodesWithResolvedAlpha ==
    WellFormed =>
        /\ pc # "crashed"
        /\ Done =>
            /\ result.err = ErrNil
            /\ Len(result.res) = 1
            /\ result.res[1].Width = header.BiWidth
            /\ result.res[1].Height = ClaimAbs(header.BiHeight)
            /\ Len(result.res[1].Data[2]) = header.BiWidth * ClaimAbs(header.BiHeight)
            /\ \A x \in Xs, y \in Ys :
                LET a == result.res[1].Data[2][y * header.BiWidth + x + 1][4]
                    sa == Mem(ClaimSrcAddr(header, x, y) + 3)
                IN  /\ a \in 1..255
                    /\ header.BiBitCount = 24 => a = 255
                    /\ header.BiBitCount = 32 /\ sa \in {0, 255} => a = 255
                    /\ header.BiBitCount = 32 /\ sa \notin {0, 255} => a = sa

\* a well-formed top-down 32-bit buffer whose pixels have alpha 128, decoded
C5_Witness ==
    /\ Done
    /\ WellFormed
    /\ header.BiSize = HeaderSize
    /\ header.BiBitCount = 32
    /\ header.BiHeight < 0
    /\ result.err = ErrNil
    /\ \E k \in DOMAIN img : img[k][4] = 128

(* C6: every pixel of a 24-bit source decodes to alpha 255; a 32-bit       *)
(* source pixel with alpha 0 decodes to alpha 255; a 32-bit source pixel   *)
(* with alpha a in 1..255 decodes to exactly a.                            *)
C6_AlphaResolution ==
    Converted =>
        \A x \in Xs, y \in Ys :
            LET sa == Mem(ClaimSrcAddr(header, x, y) + 3)
            IN  /\ header.BiBitCount = 24 => Pixel(x, y)[4] = 255
                /\ header.BiBitCount = 32 /\ sa = 0 => Pixel(x, y)[4] = 255
                /\ header.BiBitCount = 32 /\ sa \in 1..255 => Pixel(x, y)[4] = sa

\* a decoded 32-bit image with a source pixel of alpha 0 and one of an
\* alpha strictly between 0 and 255
C6_Witness ==
    /\ Converted
    /\ header.BiSize = HeaderSize
    /\ header.BiBitCount = 32
    /\ \E x \in Xs, y \in Ys :
        Mem(ClaimSrcAddr(header, x, y) + 3) = 0 /\ Pixel(x, y)[4] = 255
    /\ \E x \in Xs, y \in Ys :
        /\ Mem(ClaimSrcAddr(header, x, y) + 3) \in 1..254
        /\ Pixel(x, y)[4] = Mem(ClaimSrcAddr(header, x, y) + 3)

\* the buffer with the order of its pixel rows reversed: the same logical
\* image stored in the other row order
FlippedMem(i) ==
    LET po == ClaimPixelOffset(header)
        st == ClaimStride(header.BiWidth, header.BiBitCount)
        h == ClaimAbs(header.BiHeight)
    IN  IF i >= po /\ i < po + st * h
        THEN Mem(po + (h - 1 - ((i - po) \div st)) * st + ((i - po) % st))
        ELSE Mem(i)

(* C7: a top-down and a bottom-up buffer that encode the same logical      *)
(* image (source row r of one is source row H-1-r of the other) decode to  *)
(* pixel-identical output, for every W, H and for 24- and 32-bit depth.    *)
C7_RowOrderEquivalence ==
    Converted /\ WellFormed =>
        img = ConvertDIB([ i \in reads |-> FlippedMem(i) ], width, height,
                         bitCount, ~bottomUp, pixelOffset, rowSize)

\* a decoded bottom-up image of several rows whose first and last rows differ
C7_Witness ==
    /\ Converted /\ WellFormed
    /\ header.BiSize = HeaderSize
    /\ header.BiHeight >= 2
    /\ Pixel(0, 0) # Pixel(0, header.BiHeight - 1)

(* C8: output pixel (x, y) is taken from the source bytes at               *)
(* pixelOffset + srcRow*stride + x*(bitDepth/8), stride being              *)
(* ((W*bitDepth + 31) / 32) * 4, with the channels swapped from B,G,R[,A]  *)
(* to R,G,B,A; no other byte after the header fields is read (padding is   *)
(* skipped); a 32-bit buffer filled with (255,0,0,255) decodes to pixels   *)
(* (0,0,255,255).                                                          *)
C8_PixelAddressing ==
    Converted =>
        /\ \A x \in Xs, y \in Ys :
            LET a == ClaimSrcAddr(header, x, y)
                row == IF header.BiHeight > 0
                       THEN ClaimAbs(header.BiHeight) - 1 - y ELSE y
            IN  /\ a = ClaimPixelOffset(header)
                        + row * ((((header.BiWidth * header.BiBitCount) + 31) \div 32) * 4)
                        + x * (header.BiBitCount \div 8)
                /\ Pixel(x, y)[1] = Mem(a + 2)
                /\ Pixel(x, y)[2] = Mem(a + 1)
                /\ Pixel(x, y)[3] = Mem(a)
                /\ { a + j : j \in 0..((header.BiBitCount \div 8) - 1) } \subseteq reads
        /\ \A r \in reads \ (0..(HeaderSize - 1)) :
            \E x \in Xs, y \in Ys :
                r - ClaimSrcAddr(header, x, y) \in 0..((header.BiBitCount \div 8) - 1)
        /\ Len(img) = header.BiWidth * ClaimAbs(header.BiHeight)
        /\ (pattern = "fill" /\ WellFormed /\ header.BiBitCount = 32
                /\ header.BiSize = HeaderSize) =>
            \A k \in DOMAIN img : img[k] = <<0, 0, 255, 255>>

\* the 4x4 top-down 32-bit buffer filled with (255,0,0,255), decoded
C8_Witness ==
    /\ Converted /\ WellFormed
    /\ header.BiSize = HeaderSize
    /\ header.BiBitCount = 32
    /\ header.BiWidth = 4
    /\ header.BiHeight = -4
    /\ pattern = "fill"
    /\ Len(img) = 16
    /\ \A k \in DOMAIN img : img[k] = <<0, 0, 255, 255>>

(* C9: a declared length above 100 MiB fails with TooLarge before the      *)
(* header or any pixel byte is read, whatever the buffer holds; a declared *)
(* length of exactly 100 MiB is not rejected as TooLarge.                  *)
C9_SizeLimit ==
    /\ size > 100 * 1024 * 1024 =>
        /\ reads = {}
        /\ pc \in {"limit", "return", "done"}
        /\ pc # "limit" => result.err = ErrTooLarge
    /\ size <= 100 * 1024 * 1024 => result.err # ErrTooLarge
    /\ size = 100 * 1024 * 1024 /\ pc \in {"return", "done"} => reads # {}

\* a buffer of 100 MiB + 1 byte, refused
C9_Witness ==
    /\ Done
    /\ size = 100 * 1024 * 1024 + 1
    /\ result.err = ErrTooLarge
    /\ reads = {}

(* C10: for a 24- or 32-bit header with width > 0 and |height| > 0, a      *)
(* declared length one byte short of pixelOffset + stride*|height| fails   *)
(* with InvalidLayout and a declared length equal to it is accepted; the   *)
(* threshold is exact: every length from pixelOffset up to one byte short  *)
(* is refused and every length from the threshold on is accepted.          *)
C10_LayoutThreshold ==
    Done /\ Decodable /\ size <= maxClipboardSize =>
        /\ size = ClaimThreshold(header) - 1 => result.err = ErrLayout
        /\ size = ClaimThreshold(header) => result.err = ErrNil
        /\ (size >= ClaimPixelOffset(header) /\ size < ClaimThreshold(header))
                => result.err = ErrLayout
        /\ size >= ClaimThreshold(header) => result.err = ErrNil

\* a 24-bit image with padded rows, one byte short of its threshold, refused
C10_Witness ==
    /\ Done /\ Decodable
    /\ header.BiBitCount = 24
    /\ header.BiWidth = 3
    /\ ClaimAbs(header.BiHeight) = MaxH
    /\ size = ClaimThreshold(header) - 1
    /\ result.err = ErrLayout

(* C11 as stated: a header with positive width, non-zero height and bit    *)
(* depth 1, 4, 8 or 16 always fails with UnsupportedDepth, whatever the    *)
(* declared length from 1 byte to 100 MiB; and decoding never succeeds for *)
(* a bit depth other than 24 or 32.  (Stated for buffers that hold their   *)
(* header, where the header fields read are the buffer's own.)             *)
C11_UnsupportedDepthAlways ==
    Done /\ HeaderParsed /\ size >= HeaderSize =>
        /\ (header.BiWidth > 0 /\ header.BiHeight # 0
                /\ header.BiBitCount \in {1, 4, 8, 16})
            => result.err = ErrBitDepth
        /\ header.BiBitCount \notin {24, 32} => result.err # ErrNil

(* C12: every call that returns gives either a result and no error, the    *)
(* result being the fully converted W x |H| image (every pixel taken from  *)
(* its source bytes, none left as allocated), or no result and an error;   *)
(* never both, never neither.                                              *)
C12_AllOrNothing ==
    pc \in {"return", "done"} =>
        \/ /\ result.res = <<>>
           /\ result.err # ErrNil
        \/ /\ Len(result.res) = 1
           /\ result.err = ErrNil
           /\ result.res[1].Width = header.BiWidth
           /\ result.res[1].Height = ClaimAbs(header.BiHeight)
           /\ result.res[1].Data[1] = "png/base64"
           /\ Len(result.res[1].Data[2]) = header.BiWidth * ClaimAbs(header.BiHeight)
           /\ \A x \in Xs, y \in Ys :
                LET p == result.res[1].Data[2][y * header.BiWidth + x + 1]
                    a == ClaimSrcAddr(header, x, y)
                IN  /\ p[1] = Mem(a + 2)
                    /\ p[2] = Mem(a + 1)
                    /\ p[3] = Mem(a)
                    /\ p[4] # 0

\* a returned 3x2 image whose source bytes are not all zero
C12_Witness ==
    /\ Done
    /\ WellFormed
    /\ header.BiSize = HeaderSize
    /\ header.BiWidth = 3
    /\ ClaimAbs(header.BiHeight) = 2
    /\ pattern = "ramp"
    /\ result.err = ErrNil
    /\ Len(result.res) = 1

(* C13 as stated: of two concurrent calls at most one holds the clipboard  *)
(* at any moment, and a caller whose OpenClipboard finds the clipboard     *)
(* held by the other waits for the release and goes on to decode: no call  *)
(* returns the error of OpenClipboard because the other call held the      *)
(* clipboard.                                                              *)
C13_SecondCallerWaits ==
    /\ Cardinality(copen) <= 1
    /\ \A c \in Callers :
        (cpc[c] \in {"return", "done"} /\ c \in crefused)
            => cerr[c] # ErrOpenClipboard

-----------------------------------------------------------------------------
(* Vocabulary of the overlay properties *)

Shown == dpc = "shown"

\* the pixel the buffer holds at cell c
At(c) == pixels[c[2] * dc.width + c[1] + 1]

\* the pixel the buffer held at cell c before the last primitive ran
Was(c) == before[c[2] * dc.width + c[1] + 1]

\* cell c lies in the buffer
OnBuffer(c) ==
    /\ 0 <= c[1] /\ c[1] < dc.width
    /\ 0 <= c[2] /\ c[2] < dc.height

\* the screenshot's own pixel at cell c, opaque
Original(c) ==
    LET i == (c[2] * frame.screenshot.w + c[1]) * 4
    IN  <<255, PixByte(frame.screenshot, i), PixByte(frame.screenshot, i + 1),
          PixByte(frame.screenshot, i + 2)>>

\* the primitive that ran last
LastDrawn == IF drawLog = <<>> THEN "none" ELSE drawLog[Len(drawLog)]

(* C14: for every buffer of at least 1x1, every screenshot (smaller,       *)
(* equal, larger, nil) and every selection, corners outside the buffer     *)
(* included, every pixel write of DrawOverlay and of each primitive        *)
(* targets a cell 0 <= px < width, 0 <= py < height, and every read of the *)
(* screenshot stays inside its pixel array.                                *)
C14_WritesInBuffer ==
    /\ Len(pixels) = dc.width * dc.height
    /\ \A p \in DOMAIN writes : \A c \in writes[p] : OnBuffer(c)
    /\ \A i \in shotReads :
        0 <= i /\ i < 4 * frame.screenshot.w * frame.screenshot.h

\* a frame drawn with a screenshot larger than the buffer and a selection
\* from left of the buffer to below it; every primitive has written
C14_Witness ==
    /\ Shown
    /\ dc.width > 1
    /\ frame.screenshot.w > dc.width
    /\ frame.sel.IsDragging
    /\ frame.sel.StartX < 0
    /\ frame.sel.EndY > dc.height
    /\ \A p \in DOMAIN writes : writes[p] # {}
    /\ shotReads # {}

(* C15: DrawOverlay composes in the fixed order blit, darken, then (only   *)
(* if a selection is active) restore, border, handles, size pill, and      *)
(* last, every frame, the instruction pill.  Where layers overlap the      *)
(* later one wins: the instruction pill is never overdrawn, the size pill  *)
(* only by the instruction pill, border and handles never by the restored  *)
(* background, the restored background never by the darkening.             *)
C15_LayerOrder ==
    LET full == IF frame.sel.IsDragging
                THEN <<"drawScreenshot", "fillOverlay", "clearRegion",
                       "drawSelectionBorder", "drawCornerHandles",
                       "drawSizeIndicator", "drawInstructions">>
                ELSE <<"drawScreenshot", "fillOverlay", "drawInstructions">>
        top == writes["drawInstructions"]
        pill == writes["drawSizeIndicator"]
        marks == writes["drawSelectionBorder"] \cup writes["drawCornerHandles"]
    IN  /\ Len(drawLog) <= Len(full)
        /\ drawLog = SubSeq(full, 1, Len(drawLog))
        /\ Shown =>
            /\ drawLog = full
            /\ \A c \in top : At(c) \in {<<220, 0, 0, 0>>, <<255, 255, 255, 255>>}
            /\ \A c \in pill \ top :
                At(c) \in {<<255, 0, 120, 215>>, <<255, 255, 255, 255>>}
            /\ \A c \in marks \ (pill \cup top) : At(c) = <<255, 0, 120, 215>>
            /\ \A c \in writes["clearRegion"] \ (marks \cup pill \cup top) :
                At(c) = Original(c)

\* a frame where the layers overlap: the size pill under the instruction
\* pill, the border over restored background, a handle under the size pill
C15_Witness ==
    /\ Shown
    /\ frame.sel.IsDragging
    /\ frame.screenshot.pat = "ramp"
    /\ writes["drawSizeIndicator"] \cap writes["drawInstructions"] # {}
    /\ writes["drawSelectionBorder"] \cap writes["clearRegion"] # {}
    /\ writes["drawCornerHandles"] \cap writes["drawSizeIndicator"] # {}
    /\ \E c \in writes["clearRegion"] : At(c) = Original(c)

\* fillOverlay has been applied
Filled == fill.alpha >= 0

(* C16 as stated: the darkening with argument f replaces each of R, G, B   *)
(* by the truncated c*f/255 and sets alpha to 255: argument 128 on an      *)
(* all-white buffer yields 128 in each channel and argument 255 leaves     *)
(* every RGB value unchanged.                                              *)
C16_DarkenByFactor ==
    Filled =>
        \A i \in DOMAIN fill.out :
            /\ fill.out[i][1] = 255
            /\ \A k \in 2..4 :
                /\ fill.out[i][k] = (fill.buf[i][k] * fill.alpha) \div 255
                /\ (fill.alpha = 128 /\ fill.buf[i][k] = 255) => fill.out[i][k] = 128
                /\ fill.alpha = 255 => fill.out[i][k] = fill.buf[i][k]

(* C16 amended: the argument of fillOverlay is the opacity of the black    *)
(* overlay.  For alpha 0, 128 and 255 it replaces each of R, G, B by the   *)
(* truncated c*(255-alpha)/255 and sets alpha to 255: fillOverlay(128),    *)
(* the darken step of DrawOverlay, yields 127 in each channel of an        *)
(* all-white buffer, fillOverlay(0) leaves every RGB value unchanged and   *)
(* fillOverlay(255) makes every pixel black.                               *)
C16_DarkenByOpacity ==
    Filled =>
        /\ Len(fill.out) = Len(fill.buf)
        /\ \A i \in DOMAIN fill.out :
            /\ fill.out[i][1] = 255
            /\ \A k \in 2..4 :
                /\ fill.alpha \in {0, 128, 255} =>
                    fill.out[i][k] = (fill.buf[i][k] * (255 - fill.alpha)) \div 255
                /\ (fill.alpha = 128 /\ fill.buf[i][k] = 255) => fill.out[i][k] = 127
                /\ fill.alpha = 0 => fill.out[i][k] = fill.buf[i][k]
                /\ fill.alpha = 255 => fill.out[i][k] = 0

\* fillOverlay(128) applied to an all-white buffer
C16_Witness ==
    /\ Filled
    /\ fill.alpha = 128
    /\ \A i \in DOMAIN fill.buf : fill.buf[i] = <<255, 255, 255, 255>>
    /\ \A i \in DOMAIN fill.out : fill.out[i] = <<255, 127, 127, 127>>

\* the selection rectangle of the frame: [x, x+w) x [y, y+h)
SelRect ==
    { c \in Cells(dc.width, dc.height) :
        /\ minInt(frame.sel.StartX, frame.sel.EndX) <= c[1]
        /\ c[1] < maxInt(frame.sel.StartX, frame.sel.EndX)
        /\ minInt(frame.sel.StartY, frame.sel.EndY) <= c[2]
        /\ c[2] < maxInt(frame.sel.StartY, frame.sel.EndY) }

\* the selection rectangle lies inside the buffer and inside the screenshot
SelInside ==
    /\ ~frame.screenshot.isNil
    /\ minInt(frame.sel.StartX, frame.sel.EndX) >= 0
    /\ minInt(frame.sel.StartY, frame.sel.EndY) >= 0
    /\ maxInt(frame.sel.StartX, frame.sel.EndX) <= minInt(dc.width, frame.screenshot.w)
    /\ maxInt(frame.sel.StartY, frame.sel.EndY) <= minInt(dc.height, frame.screenshot.h)

(* C17: for a selection rectangle inside the buffer and the screenshot,    *)
(* after blit, darken and restore every pixel inside the rectangle holds   *)
(* exactly the screenshot's R, G, B with alpha 255; and the restore        *)
(* changes no pixel outside [x, x+w) x [y, y+h).                           *)
C17_RestoreExact ==
    LastDrawn = "clearRegion" =>
        /\ SelInside => \A c \in SelRect : At(c) = Original(c)
        /\ \A c \in Cells(dc.width, dc.height) \ SelRect : At(c) = Was(c)

\* the restore of a rectangle inside the buffer has undone the darkening
C17_Witness ==
    /\ LastDrawn = "clearRegion"
    /\ SelInside
    /\ frame.screenshot.pat = "ramp"
    /\ Cardinality(SelRect) > 16
    /\ \A c \in SelRect : At(c) = Original(c) /\ Was(c) # Original(c)
    /\ \E c \in Cells(dc.width, dc.height) \ SelRect : At(c) # Original(c)

\* the two outermost rings of the selection rectangle, clipped to the buffer
Rings ==
    { c \in SelRect :
        \/ c[1] - minInt(frame.sel.StartX, frame.sel.EndX) < 2
        \/ maxInt(frame.sel.StartX, frame.sel.EndX) - 1 - c[1] < 2
        \/ c[2] - minInt(frame.sel.StartY, frame.sel.EndY) < 2
        \/ maxInt(frame.sel.StartY, frame.sel.EndY) - 1 - c[2] < 2 }

(* C18 as stated: for every rectangle with w >= 0 and h >= 0, degenerate   *)
(* ones (w < 2 or h < 2) included, the 2-pixel border sets exactly the     *)
(* pixels of the rectangle's two outermost rings, clipped to the buffer:   *)
(* no pixel outside [x, x+w) x [y, y+h) and no interior pixel.             *)
C18_BorderRings ==
    LastDrawn = "drawSelectionBorder" =>
        /\ writes["drawSelectionBorder"] = Rings
        /\ \A c \in Cells(dc.width, dc.height) :
            At(c) = IF c \in Rings THEN <<255, 0, 120, 215>> ELSE Was(c)

\* drawSizeIndicator's placement has been computed
Placed == placed.bw > 0

(* C19 as stated: for every buffer and every active selection whose        *)
(* corners lie inside it, the size pill's rectangle, after the             *)
(* repositioning, lies entirely within the buffer, 8 pixels below the      *)
(* selection or else above the selection's bottom edge.  (Stated for the   *)
(* buffers that are at least as large as the pill.)                        *)
C19_PillInsideBuffer ==
    (Placed /\ placed.pill.w <= placed.bw /\ placed.pill.h <= placed.bh) =>
        LET y2 == maxInt(placed.sel.StartY, placed.sel.EndY)
        IN  /\ 0 <= placed.pill.x
            /\ placed.pill.x + placed.pill.w <= placed.bw
            /\ 0 <= placed.pill.y
            /\ placed.pill.y + placed.pill.h <= placed.bh
            /\ \/ placed.pill.y = y2 + 8
               \/ placed.pill.y + placed.pill.h <= y2

\* the selector is Idle: no drag is in progress
Idle == ~isDrawing

\* the rectangle spanned by two corner points, whatever their order
Normalized(p, q) ==
    [x |-> IF p.x < q.x THEN p.x ELSE q.x,
     y |-> IF p.y < q.y THEN p.y ELSE q.y,
     width |-> IF p.x < q.x THEN q.x - p.x ELSE p.x - q.x,
     height |-> IF p.y < q.y THEN q.y - p.y ELSE p.y - q.y]

C21_CancelDiscardsDrag ==
    /\ ~isOpen => Idle /\ startPos = Origin /\ currentPos = Origin
    /\ released.carried => Len(selected) = released.before

(* C24: Dragging is entered only by a primary-button-down, and from then   *)
(* until release or cancel the anchor stays at that down point whatever    *)
(* move events and further button events arrive; while Idle the current    *)
(* point stays reset, so a move changes nothing.                           *)
C24_AnchorFixed ==
    /\ (isOpen /\ isDrawing /\ ~entered.carried) =>
            /\ entered.button = 0
            /\ startPos = entered.down
    /\ Idle => currentPos = Origin /\ startPos = Origin

\* the calls of gdi.calls that release handle h
Releases(h) ==
    { i \in DOMAIN gdi.calls :
        gdi.calls[i].fn \in {"DeleteObject", "DeleteDC"} /\ gdi.calls[i].h = h }

\* the GDI calls made after NewDrawContext returned the context
AfterConstruction == SubSeq(gdi.calls, 4, Len(gdi.calls))

(* C22: every drawing-surface resource acquired by NewDrawContext is       *)
(* released exactly once: when the DC or the DIB section cannot be created *)
(* no context is returned and nothing is left allocated; after a           *)
(* successful construction Cleanup restores the previously selected        *)
(* bitmap, then deletes the DIB bitmap, then deletes the DC; and no handle *)
(* is released twice, a second Cleanup included.                           *)
C22_ReleasedExactlyOnce ==
    /\ dpc = "failed" => dc = NilContext /\ gdi.live = {}
    /\ gdi.cleanups >= 1 =>
        /\ gdi.live = {}
        /\ SubSeq(AfterConstruction, 1, 3) =
                << GdiCall("SelectObject", StockBitmapHandle),
                   GdiCall("DeleteObject", DIBHandle),
                   GdiCall("DeleteDC", MemDCHandle) >>
    /\ \A h \in {MemDCHandle, DIBHandle} : Cardinality(Releases(h)) <= 1

\* a string has been drawn
Typed == typed.font # "none"

\* the 5-column by 7-row cell of character i (0-based) of a string drawn
\* from (x, y)
CharCell(x, y, i) ==
    { <<px, py>> : px \in (x + 6 * i)..(x + 6 * i + 4), py \in y..(y + 6) }

(* C25: text drawing is monospaced with a 6-pixel pitch: character i       *)
(* (0-based) of any string is drawn with its left column at x + 6*i,       *)
(* whether or not earlier characters are in the glyph table: what it sets  *)
(* is its glyph placed at (x + 6*i, y), as far as the buffer reaches.  A   *)
(* character missing from the table sets no pixel, and a mapped glyph sets *)
(* only pixels inside its 5-column by 7-row cell.                          *)
C25_SixPixelPitch ==
    Typed =>
        /\ Len(typed.chars) = Len(typed.text)
        /\ \A k \in DOMAIN typed.text :
            LET f == FontOf(typed.font)
                ch == typed.text[k]
                left == typed.x + 6 * (k - 1)
            IN  /\ ch \notin DOMAIN f => typed.chars[k] = {}
                /\ typed.chars[k] \subseteq CharCell(typed.x, typed.y, k - 1)
                /\ typed.chars[k] =
                    { c \in TextCells(f, left, typed.y, <<ch>>) :
                        InBuffer(c[1], c[2], typed.bw, typed.bh) }

\* "-3 x?7" drawn by drawText from (3, 2) on the wide buffer: "-" and "?"
\* are not in the table, and the 7 after them has its top row, five pixels
\* wide from bit 0x40 of columns 0 to 4, starting at column 3 + 6*5 = 33
C25_Witness ==
    /\ typed.font = "drawText"
    /\ typed.text = <<"-", "3", " ", "x", "?", "7">>
    /\ typed.x = 3 /\ typed.y = 2 /\ typed.bw = 260
    /\ typed.chars[1] = {} /\ typed.chars[5] = {}
    /\ { c \in typed.chars[6] : c[2] = 2 } = { <<px, 2>> : px \in 33..37 }

\* the finished frames i and j were drawn from the same inputs
SameInputs(i, j) == frames[i].frame = frames[j].frame

(* C26: a frame depends only on the inputs of the current DrawOverlay      *)
(* call: two calls with the same screenshot, Selection and scale ratio     *)
(* leave the pixel buffer in the same state whatever frames were drawn     *)
(* before them, so drawing the same frame twice in a row changes nothing;  *)
(* this includes screenshots smaller than the buffer and nil ones.         *)
C26_FrameFromInputsOnly ==
    \A i \in DOMAIN frames, j \in DOMAIN frames :
        SameInputs(i, j) => frames[i].pixels = frames[j].pixels

(* C27: the list of uploaded background images never holds more than       *)
(* MAX_BACKGROUND_IMAGES (8) entries, whatever the interleaving of         *)
(* uploads, file-read completions and removals; two uploads started while  *)
(* the list holds 7 images are not both appended.                          *)
C27_AtMostEightImages == Len(panel.uploadedImages) <= 8

\* constrainCrop has returned an area
Cropped == crop.aspectRatio # "none"

(* C28: for every input area, every aspect-ratio setting and every image   *)
(* of at least 20x20 pixels, the area constrainCrop returns lies inside    *)
(* the image rectangle [paddingX, paddingX+imageWidth] x [paddingY,        *)
(* paddingY+imageHeight] and is at least 20 wide and 20 high; with a fixed *)
(* aspect ratio its width/height equals that ratio.                        *)
C28_CropInsideAndLargeEnough ==
    Cropped =>
        LET a == crop.area
            ratio == ASPECT_RATIO_VALUES(crop.aspectRatio)
        IN  /\ a.x >= crop.paddingX
            /\ a.y >= crop.paddingY
            /\ a.x + a.width <= crop.paddingX + crop.imageWidth
            /\ a.y + a.height <= crop.paddingY + crop.imageHeight
            /\ a.width >= 20 * Px
            /\ a.height >= 20 * Px
            /\ ratio # <<>> => a.width * ratio[2] = a.height * ratio[1]

(* C29: CaptureWindowByCoords never returns a nil result together with a   *)
(* nil error: for every window rectangle, one whose width or height is     *)
(* <= 0 included, the caller gets either a capture result or a non-nil     *)
(* error.                                                                  *)
C29_ResultOrError ==
    capture.pc = "returned" =>
        capture.res # NilCapture \/ capture.err # "nil"

(* C30: in the settings dialog Cancel discards every unsaved edit and      *)
(* sends nothing to the backend: right after Cancel the dialog is closed,  *)
(* the edited configuration equals the configuration last loaded or last   *)
(* successfully saved, and the backend and the call in flight are as they  *)
(* were.  A failed save does not close the dialog, shows an error, leaves  *)
(* that reference configuration as it was and ends with the saving flag    *)
(* cleared.                                                                *)
C30_CancelDiscardsEdits ==
    /\ dialog.last.ev = "cancel" =>
        /\ ~dialog.isOpen
        /\ dialog.localConfig = dialog.reference
        /\ dialog.backend = dialog.last.backend
        /\ dialog.saving = dialog.last.saving
    /\ dialog.last.ev = "saveFailed" =>
        /\ dialog.isOpen = dialog.last.isOpen
        /\ dialog.error = "Failed to save settings"
        /\ dialog.originalConfig = dialog.last.originalConfig
        /\ dialog.originalConfig = dialog.reference
        /\ ~dialog.isSaving

\* Cancel found an open dialog showing quality 80 and launch-on-startup
\* while the backend holds quality 95 without it, and put those values back
C30_Witness ==
    /\ dialog.last.ev = "cancel"
    /\ dialog.last.localConfig = [jpegQuality |-> 80, launchOnStartup |-> TRUE]
    /\ dialog.backend = [jpegQuality |-> 95, launchOnStartup |-> FALSE]
    /\ dialog.localConfig = [jpegQuality |-> 95, launchOnStartup |-> FALSE]

====
